---- MODULE Spec2Model ----
(***************************************************************************)
(* Model of the MCMC calibration of PyGEM (run_calibration.py, option 2): *)
(* the per-glacier loop of main(), run_MCMC with its sampler loop, the    *)
(* one-shot prior adjustment, ensemble sampling, process_df and the       *)
(* per-glacier netcdf record, the precipitation-factor transformation,   *)
(* and __main__: chunking (also that of run_simulation.py), the workers,  *)
(* the removal of old files and the merge of the per-glacier files; and   *)
(* of run_simulation.py the glacier loop's choice of parameter sets.      *)
(* Real numbers are exact rationals <<n, d>> in lowest terms with d > 0.  *)
(***************************************************************************)
EXTENDS Integers, Sequences, FiniteSets, TLC

VARIABLES
    main_glac_rgi,     \* glacier_str of the glaciers of this worker's chunk
    glac,              \* loop index of main's glacier loop (1-based here)
    pc,                \* position of main inside the loop body
    glacier_cal_data,  \* calibration row of the glacier: mb_mwe, mb_mwe_err, t1, t2
    distribution_type, \* main's local distribution_type
    shifted,           \* main's locals *_mu_shifted, *_boundlow_shifted, *_boundhigh_shifted
    prior,             \* the prior distributions assigned by the current run_MCMC call
    iterations,        \* run_MCMC argument
    burn,              \* run_MCMC argument
    thin,              \* run_MCMC argument
    cur_iter,          \* the sampler's loop counter
    cur,               \* current value of the chain: precfactor, tempchange, ddfsnow, massbal
    model,             \* the traces tallied in the model returned by run_MCMC
    tempchange,        \* main's local arrays read from model.trace(...)
    precfactor,
    ddfsnow,
    massbal,
    sampling,          \* dataframe returned by es.stratified_sample
    files,             \* per-glacier netcdf files: file name -> dataset
    runs,              \* history: number of run_MCMC calls made for the current glacier
    mb_mean1,          \* history: massbal.mean() of the glacier's first run
    precfactor_raw,    \* argument array of prec_transformation
    precfactor_out,    \* array returned by prec_transformation
    mp_copy2,          \* modelparameters_copy[2] inside massbal
    input,             \* the values read from pygem_input: mcmc_sample_no, mcmc_burn_no, ensemble_no
    exc,               \* the exception that left main uncaught, if any
    stdout,            \* the lines main printed about glaciers
    main_glac_rgi_all, \* __main__: RGIId_float of all glaciers of the region, in table order
    parsed_args,       \* __main__: args.option_parallels, args.num_simultaneous_processes
    script,            \* which driver runs: "calibration" or "simulation"
    cal_glacno,        \* the glaciers (RGIId_float) that have calibration data
    chunk_size,        \* __main__: chunk_size
    list_packed_vars,  \* __main__: the packed variables, one element per chunk
    driver_pc,         \* position of __main__
    tasks,             \* the calls main(list_packed_vars[n]): status, glaciers, loop index
    da_dict,           \* __main__: the dictionary of data arrays built by the merge
    mcmc_output,       \* the merged netcdf file input.mcmc_output_filename
    filelist,          \* __main__: the *.nc files found in mcmc_output_parallel_fp before the run
    writes,            \* history: which call of main wrote which file
    modelparameters,   \* main: the list of model parameters set for the glacier
    modelparameters_copy,\* massbal: the list handed to runmassbalance
    glac_wide_massbaltotal,\* massbal: the glacier-wide mass balance of each time step, from runmassbalance
    executions,        \* history: the traces of the earlier executions of the same run_MCMC call
    cn_subset,         \* run_simulation main: the column names selected from the imported parameters
    modelparams_all,   \* run_simulation main: the imported parameter sets (rows, columns)
    sim_iters,         \* run_simulation main: number of parameter sets simulated for the glacier
    mp_spacing,        \* run_simulation main: distance between the selected parameter sets
    mp_idx_start,      \* run_simulation main: index of the first selected parameter set
    mp_idx_all,        \* run_simulation main: the indices of the selected parameter sets
    n_iter,            \* run_simulation main: loop index over the parameter sets
    mp_idx             \* run_simulation main: index of the parameter set of this iteration

vars == <<input, main_glac_rgi, glac, pc, glacier_cal_data, distribution_type, shifted, prior,
          iterations, burn, thin, cur_iter, cur, model, tempchange, precfactor,
          ddfsnow, massbal, sampling, files, runs, mb_mean1,
          precfactor_raw, precfactor_out, mp_copy2, exc, stdout,
          main_glac_rgi_all, parsed_args, script, cal_glacno, chunk_size, list_packed_vars,
          driver_pc, tasks, da_dict, mcmc_output,
          filelist,
          writes,
          modelparameters,
          modelparameters_copy,
          glac_wide_massbaltotal,
          executions,
          cn_subset,
          modelparams_all,
          sim_iters,
          mp_spacing,
          mp_idx_start,
          mp_idx_all,
          n_iter,
          mp_idx>>

\* the variables of __main__
batch == <<writes, filelist, main_glac_rgi_all, parsed_args, script, cal_glacno, chunk_size, list_packed_vars,
           driver_pc, tasks, da_dict, mcmc_output>>

\* the variables that neither main's glacier loop of run_calibration nor
\* __main__ changes: the earlier executions and the locals of run_simulation's main
apart == <<executions, cn_subset, modelparams_all, sim_iters, mp_spacing, mp_idx_start,
           mp_idx_all, n_iter, mp_idx>>

None == "none"

\* no earlier execution, and run_simulation's main not entered
ApartIdle ==
    /\ executions = <<>>
    /\ cn_subset = <<>>
    /\ modelparams_all = [rows |-> 0, columns |-> <<>>]
    /\ sim_iters = 0
    /\ mp_spacing = 0
    /\ mp_idx_start = 0
    /\ mp_idx_all = <<>>
    /\ n_iter = 0
    /\ mp_idx = 0

-----------------------------------------------------------------------------
(* Exact rational arithmetic standing for Python/numpy float arithmetic.   *)

RECURSIVE Gcd(_, _)
Gcd(a, b) ==
    IF b = 0 THEN a ELSE Gcd(b, a % b)

IAbs(n) ==
    IF n < 0 THEN -n ELSE n

Rat(n, d) ==
    LET s == IF d < 0 THEN -1 ELSE 1
        g == Gcd(IAbs(n), IAbs(d))
    IN  <<(s * n) \div g, (s * d) \div g>>

RInt(n) ==
    <<n, 1>>

RAdd(x, y) ==
    Rat(x[1] * y[2] + y[1] * x[2], x[2] * y[2])

RSub(x, y) ==
    Rat(x[1] * y[2] - y[1] * x[2], x[2] * y[2])

RMul(x, y) ==
    Rat(x[1] * y[1], x[2] * y[2])

RDiv(x, y) ==
    Rat(x[1] * y[2], x[2] * y[1])

RLt(x, y) ==
    x[1] * y[2] < y[1] * x[2]

RLe(x, y) ==
    x[1] * y[2] <= y[1] * x[2]

RAbs(x) ==
    <<IAbs(x[1]), x[2]>>

RECURSIVE RSum(_)
RSum(s) ==
    IF s = <<>> THEN RInt(0) ELSE RAdd(s[1], RSum(Tail(s)))

\* numpy's ndarray.mean()
Mean(s) ==
    RDiv(RSum(s), RInt(Len(s)))

-----------------------------------------------------------------------------
(* prec_transformation and the same transformation inside massbal.         *)

\* precfactor[precfactor >= 0] = precfactor[precfactor >= 0] + 1
MaskAddOne(a) ==
    [k \in DOMAIN a |-> IF RLe(RInt(0), a[k]) THEN RAdd(a[k], RInt(1)) ELSE a[k]]

\* precfactor[precfactor < 0] = 1 / (1 - precfactor[precfactor < 0])
MaskInvert(a) ==
    [k \in DOMAIN a |-> IF RLt(a[k], RInt(0)) THEN RDiv(RInt(1), RSub(RInt(1), a[k])) ELSE a[k]]

\* the two masked assignments in the opposite order
prec_transformation_swapped(raw) ==
    MaskAddOne(MaskInvert(raw))

\* the first masked assignment without its "+ 1"
prec_transformation_noshift(raw) ==
    MaskInvert(raw)

prec_transformation(raw) ==
    MaskInvert(MaskAddOne(raw))

\* massbal: "Precipitation factor transformation" of modelparameters_copy[2]
massbal_prec(x) ==
    IF RLe(RInt(0), x) THEN RAdd(x, RInt(1)) ELSE RDiv(RInt(1), RSub(RInt(1), x))

-----------------------------------------------------------------------------
(* Script-specific input data (module level of run_calibration.py).        *)

mcmc_distribution_type == "truncnormal"
mcmc_distribution_type_2 == "uniform"
precfactor_mu == 0
precfactor_sigma == 1
precfactor_boundlow == -2
precfactor_boundhigh == 2
tempchange_mu == 0
tempchange_sigma == 4
tempchange_boundlow == -10
tempchange_boundhigh == 10
ddfsnow_mu == Rat(41, 10000)
ddfsnow_sigma == Rat(15, 10000)
ddfsnow_boundlow == RSub(ddfsnow_mu, RMul(Rat(196, 100), ddfsnow_sigma))
ddfsnow_boundhigh == RAdd(ddfsnow_mu, RMul(Rat(196, 100), ddfsnow_sigma))

\* the literal 0.1 of "abs(massbal.mean() - observed_massbal) > 0.1"
Tolerance == Rat(1, 10)

\* run_MCMC's default for thin, which main never overrides
thin_default == 1

\* the uncalibrated parameters of pygem_input, kept symbolic
static_lrgcm == "input.lrgcm"
static_lrglac == "input.lrglac"
static_precgrad == "input.precgrad"
static_ddfice == "input.ddfice"
static_tempsnow == "input.tempsnow"

-----------------------------------------------------------------------------
(* Bounds of the model.                                                    *)

SampleNo == 3      \* input.mcmc_sample_no of the calibration runs
BurnNo == 1        \* input.mcmc_burn_no of the calibration runs
MaxEnsemble == 3   \* input.ensemble_no ranges over 1..MaxEnsemble
MaxIter == 4       \* iterations of a stand-alone run_MCMC call range over 1..MaxIter
MaxThin == 2       \* thin of a stand-alone run_MCMC call ranges over 1..MaxThin
MaxArray == 2      \* length of the arrays given to prec_transformation
MaxNum == 3        \* raw precipitation factors are n/d with |n| <= MaxNum
MaxDen == 2        \* and 1 <= d <= MaxDen
MaxTrace == 4      \* length of the traces given to es.stratified_sample on their own
MaxGlaciers == 5   \* number of glaciers of the region ranges over 1..MaxGlaciers
MaxTwinIter == 2   \* iterations of the run_MCMC calls that are executed twice: 1..MaxTwinIter
MaxRows == 6       \* parameter sets in a glacier's file of calibrated parameters: 1..MaxRows
MaxSimIters == 3   \* input.sim_iters ranges over 1..MaxSimIters
MaxSimBurn == 2    \* input.sim_burn ranges over 0..MaxSimBurn
MaxSteps == 4      \* time steps of the series returned by runmassbalance: 1..MaxSteps
MaxProc == 3       \* args.num_simultaneous_processes ranges over 1..MaxProc

\* values the sampler may visit (the chain moves inside the priors' support)
PFVals == {RInt(-2), RInt(1)}
TCVals == {RInt(-2), RInt(2)}
DDFVals == {Rat(41, 10000), Rat(50, 10000)}
\* glacier-wide mass balances the forward model may return [mwea]
MBVals == {Rat(-7, 10), Rat(-4, 10), Rat(-3, 10)}
\* calibration rows the observation provider may supply
CalData == {[mb_mwe |-> Rat(-15, 2), mb_mwe_err |-> RInt(3), t1 |-> 2000, t2 |-> 2015,
             t1_idx |-> 0, t2_idx |-> 1]}
\* RGIId_float of glacier i of the region (RGI region 15)
RGIId_float(i) ==
    Rat(1500000 + i, 100000)
\* the glaciers of a worker whose chunk holds one glacier with calibration data
GlacierStrs == {<<RGIId_float(1)>>}
RawVals == {Rat(n, d) : n \in (-MaxNum)..MaxNum, d \in 1..MaxDen}

-----------------------------------------------------------------------------
(* run_MCMC: prior assignment, sampler loop, traces.                       *)

\* the keyword defaults of run_MCMC
DefaultArgs ==
    [precfactor_mu |-> RInt(precfactor_mu), precfactor_sigma |-> RInt(precfactor_sigma),
     precfactor_boundlow |-> RInt(precfactor_boundlow),
     precfactor_boundhigh |-> RInt(precfactor_boundhigh),
     tempchange_mu |-> RInt(tempchange_mu), tempchange_sigma |-> RInt(tempchange_sigma),
     tempchange_boundlow |-> RInt(tempchange_boundlow),
     tempchange_boundhigh |-> RInt(tempchange_boundhigh),
     ddfsnow_mu |-> ddfsnow_mu, ddfsnow_sigma |-> ddfsnow_sigma,
     ddfsnow_boundlow |-> ddfsnow_boundlow, ddfsnow_boundhigh |-> ddfsnow_boundhigh]

\* pymc.TruncatedNormal(mu, tau=1/sigma**2, a=(boundlow-mu)/sigma, b=(boundhigh-mu)/sigma)
TruncatedNormal(mu, sigma, boundlow, boundhigh) ==
    [kind |-> "truncnormal", mu |-> mu, tau |-> RDiv(RInt(1), RMul(sigma, sigma)),
     a |-> RDiv(RSub(boundlow, mu), sigma), b |-> RDiv(RSub(boundhigh, mu), sigma)]

\* pymc.Uniform(lower=boundlow, upper=boundhigh)
Uniform(boundlow, boundhigh) ==
    [kind |-> "uniform", lower |-> boundlow, upper |-> boundhigh]

\* run_MCMC that ignores its distribution_type argument
AssignPriors_ignoretype(dtype, args) ==
    [precfactor |-> TruncatedNormal(args.precfactor_mu, args.precfactor_sigma,
                                    args.precfactor_boundlow, args.precfactor_boundhigh),
     tempchange |-> TruncatedNormal(args.tempchange_mu, args.tempchange_sigma,
                                    args.tempchange_boundlow, args.tempchange_boundhigh),
     ddfsnow |-> TruncatedNormal(args.ddfsnow_mu, args.ddfsnow_sigma,
                                 args.ddfsnow_boundlow, args.ddfsnow_boundhigh)]

\* "Assign prior distributions" of run_MCMC
AssignPriors(dtype, args) ==
    IF dtype = "truncnormal"
    THEN [precfactor |-> TruncatedNormal(args.precfactor_mu, args.precfactor_sigma,
                                         args.precfactor_boundlow, args.precfactor_boundhigh),
          tempchange |-> TruncatedNormal(args.tempchange_mu, args.tempchange_sigma,
                                         args.tempchange_boundlow, args.tempchange_boundhigh),
          ddfsnow |-> TruncatedNormal(args.ddfsnow_mu, args.ddfsnow_sigma,
                                      args.ddfsnow_boundlow, args.ddfsnow_boundhigh)]
    ELSE [precfactor |-> Uniform(args.precfactor_boundlow, args.precfactor_boundhigh),
          tempchange |-> Uniform(args.tempchange_boundlow, args.tempchange_boundhigh),
          ddfsnow |-> Uniform(args.ddfsnow_boundlow, args.ddfsnow_boundhigh)]

\* lower and upper end of the support of a prior, as pymc reads its arguments
PriorLower(p) ==
    IF p.kind = "truncnormal" THEN p.a ELSE p.lower

PriorUpper(p) ==
    IF p.kind = "truncnormal" THEN p.b ELSE p.upper

InSupport(p, x) ==
    RLe(PriorLower(p), x) /\ RLe(x, PriorUpper(p))

\* the mean parameter of a prior (the mid-point for a uniform, which has no mu)
PriorMean(p) ==
    IF p.kind = "truncnormal" THEN p.mu ELSE RDiv(RAdd(p.lower, p.upper), RInt(2))

\* states of the chain: parameter values inside the priors' support with the
\* mass balance the deterministic massbal returns for them
ChainStates(pr) ==
    {[precfactor |-> pf, tempchange |-> tc, ddfsnow |-> df, massbal |-> mb] :
        pf \in {x \in PFVals : InSupport(pr.precfactor, x)},
        tc \in {x \in TCVals : InSupport(pr.tempchange, x)},
        df \in {x \in DDFVals : InSupport(pr.ddfsnow, x)},
        mb \in MBVals}

EmptyTrace ==
    [precfactor |-> <<>>, tempchange |-> <<>>, ddfsnow |-> <<>>, massbal |-> <<>>]

\* tallying every iteration, before the burn-in is over as well
ShouldTally_noburn(i, b, t) ==
    i % t = 0

\* "Record sample to trace, if appropriate" of model.sample(iter, burn, thin)
ShouldTally(i, b, t) ==
    i % t = 0 /\ i >= b

\* tally that leaves the massbal trace out
Tally_nomassbal(m, c) ==
    [precfactor |-> Append(m.precfactor, c.precfactor),
     tempchange |-> Append(m.tempchange, c.tempchange),
     ddfsnow |-> Append(m.ddfsnow, c.ddfsnow),
     massbal |-> m.massbal]

Tally(m, c) ==
    [precfactor |-> Append(m.precfactor, c.precfactor),
     tempchange |-> Append(m.tempchange, c.tempchange),
     ddfsnow |-> Append(m.ddfsnow, c.ddfsnow),
     massbal |-> Append(m.massbal, c.massbal)]

\* the calibrated parameters of pygem_input, kept symbolic: a one-element
\* tuple, which differs from every rational <<n, d>>
static_precfactor == <<"input.precfactor">>
static_ddfsnow == <<"input.ddfsnow">>
static_tempchange == <<"input.tempchange">>

\* modelparameters = [input.lrgcm, input.lrglac, input.precfactor, input.precgrad,
\*                    input.ddfsnow, input.ddfice, input.tempsnow, input.tempchange]
Baseline ==
    <<static_lrgcm, static_lrglac, static_precfactor, static_precgrad,
      static_ddfsnow, static_ddfice, static_tempsnow, static_tempchange>>

\* massbal working on main's list itself instead of a copy
massbal_parameters_inplace(mp, pf, df, tc) ==
    [modelparameters |-> [mp EXCEPT ![3] = massbal_prec(pf), ![5] = df, ![8] = tc],
     modelparameters_copy |-> [mp EXCEPT ![3] = massbal_prec(pf), ![5] = df, ![8] = tc]]

\* massbal: modelparameters_copy = modelparameters.copy(); entries [2], [4], [7]
\* (0-based) are set to float(precfactor), float(ddfsnow), float(tempchange);
\* then entry [2] goes through the precipitation factor transformation
massbal_parameters(mp, pf, df, tc) ==
    [modelparameters |-> mp,
     modelparameters_copy |->
         [[mp EXCEPT ![3] = pf, ![5] = df, ![8] = tc] EXCEPT ![3] = massbal_prec(@)]]

\* the slice window[t1_idx:t2_idx] divided by the number of steps in it
massbal_return_perstep(series, cal) ==
    LET stop == IF cal.t2_idx < Len(series) THEN cal.t2_idx ELSE Len(series)
    IN  RDiv(RSum(SubSeq(series, cal.t1_idx + 1, stop)),
             RInt(IF stop > cal.t1_idx THEN stop - cal.t1_idx ELSE 1))

\* return glac_wide_massbaltotal[t1_idx:t2_idx].sum() / (t2 - t1)
massbal_return(series, cal) ==
    LET stop == IF cal.t2_idx < Len(series) THEN cal.t2_idx ELSE Len(series)
    IN  RDiv(RSum(SubSeq(series, cal.t1_idx + 1, stop)), RInt(cal.t2 - cal.t1))

\* the series of one time step whose window [0, 1) gives the mass balance mb
OneStep(mb, cal) ==
    <<RMul(mb, RInt(cal.t2 - cal.t1))>>

\* one evaluation of the deterministic massbal for the given parameter values,
\* runmassbalance returning the given series of glacier-wide mass balances
Evaluate(pf, df, tc, series) ==
    /\ modelparameters' =
          massbal_parameters(modelparameters, pf, df, tc).modelparameters
    /\ modelparameters_copy' =
          massbal_parameters(modelparameters, pf, df, tc).modelparameters_copy
    /\ glac_wide_massbaltotal' = series

\* run_MCMC up to the start of model.sample: priors, initial values, empty traces
StartMCMC(dtype, args, iters, b, t) ==
    /\ prior' = AssignPriors(dtype, args)
    /\ iterations' = iters
    /\ burn' = b
    /\ thin' = t
    /\ cur_iter' = 0
    /\ cur' \in ChainStates(prior')
    /\ model' = EmptyTrace
    /\ mp_copy2' = massbal_prec(cur'.precfactor)
    /\ Evaluate(cur'.precfactor, cur'.ddfsnow, cur'.tempchange,
                OneStep(cur'.massbal, glacier_cal_data))

\* one iteration of model.sample: every step method steps (the proposal is
\* accepted or rejected), massbal is re-evaluated, the values are tallied
SampleIter ==
    /\ pc \in {"sample1", "sample2", "sample"}
    /\ cur_iter < iterations
    /\ cur' \in ChainStates(prior) \cup {cur}
    /\ mp_copy2' = massbal_prec(cur'.precfactor)
    /\ Evaluate(cur'.precfactor, cur'.ddfsnow, cur'.tempchange,
                OneStep(cur'.massbal, glacier_cal_data))
    /\ model' = IF ShouldTally(cur_iter, burn, thin) THEN Tally(model, cur') ELSE model
    /\ cur_iter' = cur_iter + 1
    /\ UNCHANGED <<exc, stdout>>
    /\ UNCHANGED batch
    /\ UNCHANGED apart
    /\ UNCHANGED <<input, main_glac_rgi, glac, pc, glacier_cal_data, distribution_type,
                   shifted, prior, iterations, burn, thin, tempchange, precfactor,
                   ddfsnow, massbal, sampling, files, runs, mb_mean1,
                   precfactor_raw, precfactor_out>>

-----------------------------------------------------------------------------
(* es.stratified_sample and process_df.                                    *)

\* position (1-based) of trace entry k when the entries are sorted by mass
\* balance, equal values keeping their trace order
SortRank(mb, k) ==
    1 + Cardinality({j \in DOMAIN mb : RLt(mb[j], mb[k]) \/ (mb[j] = mb[k] /\ j < k)})

\* the trace index standing at sorted position p
SortedAt(mb, p) ==
    CHOOSE k \in DOMAIN mb : SortRank(mb, k) = p

\* every stratum represented by the middle entry of the whole trace
StratumPick_centre(n, k, j) ==
    (n \div 2) + 1

\* sorted position (1-based) of the representative of stratum j (0-based) when
\* n sorted entries are cut into k strata: the middle entry of the stratum
StratumPick(n, k, j) ==
    LET lo == (j * n) \div k
        hi == ((j + 1) * n) \div k - 1
    IN  lo + ((hi - lo) \div 2) + 1

\* es.stratified_sample(tempchange, precfactor, ddfsnow, massbal, samples)
stratified_sample(tc, pf, df, mb, samples) ==
    [r \in 1..samples |->
        LET p == StratumPick(Len(mb), samples, r - 1)
            k == SortedAt(mb, p)
        IN  [tempchange |-> tc[k], precfactor |-> massbal_prec(pf[k]), ddfsnow |-> df[k],
             massbal |-> mb[k], sorted_index |-> p - 1]]

\* process_df filling the lapse-rate columns from the sampled temperature change
process_df_fromtrace(df) ==
    [r \in 0..(Len(df) - 1) |->
        [tempchange |-> df[r + 1].tempchange, precfactor |-> df[r + 1].precfactor,
         ddfsnow |-> df[r + 1].ddfsnow, massbal |-> df[r + 1].massbal,
         lrgcm |-> df[r + 1].tempchange, lrglac |-> df[r + 1].tempchange,
         precgrad |-> static_precgrad, ddfice |-> static_ddfice, tempsnow |-> static_tempsnow]]

\* process_df keeping the rows but numbering the runs from the last row to the first
process_df_reversed(df) ==
    [r \in 0..(Len(df) - 1) |->
        [tempchange |-> df[Len(df) - r].tempchange, precfactor |-> df[Len(df) - r].precfactor,
         ddfsnow |-> df[Len(df) - r].ddfsnow, massbal |-> df[Len(df) - r].massbal,
         lrgcm |-> static_lrgcm, lrglac |-> static_lrglac, precgrad |-> static_precgrad,
         ddfice |-> static_ddfice, tempsnow |-> static_tempsnow]]

\* process_df applying the precipitation-factor transformation to its column
process_df_transformed(df) ==
    [r \in 0..(Len(df) - 1) |->
        [tempchange |-> df[r + 1].tempchange, precfactor |-> massbal_prec(df[r + 1].precfactor),
         ddfsnow |-> df[r + 1].ddfsnow, massbal |-> df[r + 1].massbal,
         lrgcm |-> static_lrgcm, lrglac |-> static_lrglac, precgrad |-> static_precgrad,
         ddfice |-> static_ddfice, tempsnow |-> static_tempsnow]]

\* process_df: static columns added, sorted_index dropped, index 'runs' = 0..len-1
process_df(df) ==
    [r \in 0..(Len(df) - 1) |->
        [tempchange |-> df[r + 1].tempchange, precfactor |-> df[r + 1].precfactor,
         ddfsnow |-> df[r + 1].ddfsnow, massbal |-> df[r + 1].massbal,
         lrgcm |-> static_lrgcm, lrglac |-> static_lrglac, precgrad |-> static_precgrad,
         ddfice |-> static_ddfice, tempsnow |-> static_tempsnow]]

\* a dataset that carries the number of sampler runs as an attribute
Dataset_withrounds(name, df) ==
    [name |-> name, values |-> df, attrs |-> [rounds |-> runs]]

\* da = xr.DataArray(df); da.name = glacier_str; ds = xr.Dataset({da.name: da})
Dataset(name, df) ==
    [name |-> name, values |-> df, attrs |-> <<>>]

-----------------------------------------------------------------------------
(* main: the glacier loop of calibration option 2.                         *)

\* the nearest integer of a non-negative rational, ties to the even one
RoundHalfEven(x) ==
    LET q == x[1] \div x[2]
        r == 2 * (x[1] % x[2])
    IN  IF r < x[2] \/ (r = x[2] /\ q % 2 = 0) THEN q ELSE q + 1

\* x * scale rounded to an integer, for a rational x >= 0 and an integer scale
Scaled(x, scale) ==
    LET g == Gcd(scale, x[2])
    IN  RoundHalfEven(<<x[1] * (scale \div g), x[2] \div g>>)

\* '{0:0.4f}'.format(x)
Format4f(x) ==
    <<Scaled(x, 10000) \div 10000, ".", Scaled(x, 10000) % 10000>>

\* '{0:0.5f}'.format(x): the integer part and the five decimals of x
Format5f(x) ==
    <<Scaled(x, 100000) \div 100000, ".", Scaled(x, 100000) % 100000>>

\* glacier_str = '{0:0.5f}'.format(glacier_rgi_table['RGIId_float'])
glacier_str ==
    Format5f(main_glac_rgi[glac])

\* observed_massbal = mb_mwe / (t2 - t1)
observed_massbal ==
    RDiv(glacier_cal_data.mb_mwe, RInt(glacier_cal_data.t2 - glacier_cal_data.t1))

\* observed_error = mb_mwe_err / (t2 - t1)
observed_error ==
    RDiv(glacier_cal_data.mb_mwe_err, RInt(glacier_cal_data.t2 - glacier_cal_data.t1))

\* massbal.mean() - observed_massbal
Delta(mb) ==
    RSub(Mean(mb), observed_massbal)

\* a retry test that also retries on the boundary value
NeedsAdjust_ge(mb) ==
    RLe(Tolerance, RAbs(Delta(mb)))

\* "if abs(massbal.mean() - observed_massbal) > 0.1"
NeedsAdjust(mb) ==
    RLt(Tolerance, RAbs(Delta(mb)))

\* the shifted values with the two branches exchanged
ShiftedValues_swapped(pf, tc, mb) ==
    [precfactor_mu |-> Mean(pf), tempchange_mu |-> Mean(tc)] @@
    (IF RLt(RInt(0), Delta(mb))
     THEN [precfactor_boundlow |-> RInt(0),
           precfactor_boundhigh |-> RInt(precfactor_boundhigh),
           tempchange_boundlow |-> RInt(tempchange_boundlow),
           tempchange_boundhigh |-> RInt(0)]
     ELSE [precfactor_boundlow |-> RInt(precfactor_boundlow),
           precfactor_boundhigh |-> RInt(0),
           tempchange_boundlow |-> RInt(0),
           tempchange_boundhigh |-> RInt(tempchange_boundhigh)])

\* an adjustment that forces both bounds of a parameter to 0
ShiftedValues_collapsed(pf, tc, mb) ==
    [precfactor_mu |-> Mean(pf), tempchange_mu |-> Mean(tc),
     precfactor_boundlow |-> RInt(0), precfactor_boundhigh |-> RInt(0),
     tempchange_boundlow |-> RInt(0), tempchange_boundhigh |-> RInt(0)]

\* precfactor_mu_shifted, tempchange_mu_shifted and the four *_bound*_shifted
ShiftedValues(pf, tc, mb) ==
    [precfactor_mu |-> Mean(pf), tempchange_mu |-> Mean(tc)] @@
    (IF RLt(RInt(0), Delta(mb))
     THEN [precfactor_boundlow |-> RInt(precfactor_boundlow),
           precfactor_boundhigh |-> RInt(0),
           tempchange_boundlow |-> RInt(0),
           tempchange_boundhigh |-> RInt(tempchange_boundhigh)]
     ELSE [precfactor_boundlow |-> RInt(0),
           precfactor_boundhigh |-> RInt(precfactor_boundhigh),
           tempchange_boundlow |-> RInt(tempchange_boundlow),
           tempchange_boundhigh |-> RInt(0)])

\* the keyword arguments of the second run_MCMC call
RetryArgs(sh) ==
    [DefaultArgs EXCEPT !.precfactor_mu = sh.precfactor_mu,
                        !.precfactor_boundlow = sh.precfactor_boundlow,
                        !.precfactor_boundhigh = sh.precfactor_boundhigh,
                        !.tempchange_mu = sh.tempchange_mu,
                        !.tempchange_boundlow = sh.tempchange_boundlow,
                        !.tempchange_boundhigh = sh.tempchange_boundhigh]

\* the second "get variables" block with the ddfsnow line missing
TraceVars_staleddf(m, old) ==
    [tempchange |-> m.tempchange, precfactor |-> m.precfactor,
     ddfsnow |-> old.ddfsnow, massbal |-> m.massbal]

\* "get variables": the four arrays main reads from the model's traces
TraceVars(m, old) ==
    [tempchange |-> m.tempchange, precfactor |-> m.precfactor,
     ddfsnow |-> m.ddfsnow, massbal |-> m.massbal]

\* a second run followed by the tolerance test again
AfterSecondRun_loop ==
    "adjust"

\* the statement after the "if": main goes on to es.stratified_sample
AfterSecondRun ==
    "stratify"

Locals ==
    [tempchange |-> tempchange, precfactor |-> precfactor,
     ddfsnow |-> ddfsnow, massbal |-> massbal]

\* "Select subsets of data" and "Select observed mass balance, error, and time data"
SelectGlacier ==
    /\ pc = "select"
    /\ glacier_cal_data' \in CalData
    /\ pc' = "mcmc"
    /\ runs' = 0
    /\ mb_mean1' = None
    /\ shifted' = None
    /\ UNCHANGED <<exc, stdout>>
    /\ UNCHANGED batch
    /\ UNCHANGED apart
    /\ modelparameters' = Baseline
    /\ UNCHANGED <<modelparameters_copy, glac_wide_massbaltotal>>
    /\ UNCHANGED <<input, main_glac_rgi, glac, distribution_type, prior, iterations, burn,
                   thin, cur_iter, cur, model, tempchange, precfactor, ddfsnow, massbal,
                   sampling, files, precfactor_raw, precfactor_out, mp_copy2>>

\* "fit the MCMC model": distribution_type = mcmc_distribution_type; run_MCMC(...)
FirstRun ==
    /\ pc = "mcmc"
    /\ distribution_type' = mcmc_distribution_type
    /\ StartMCMC(distribution_type', DefaultArgs, input.mcmc_sample_no,
                 input.mcmc_burn_no, thin_default)
    /\ runs' = runs + 1
    /\ pc' = "sample1"
    /\ UNCHANGED <<exc, stdout>>
    /\ UNCHANGED batch
    /\ UNCHANGED apart
    /\ UNCHANGED <<input, main_glac_rgi, glac, glacier_cal_data, shifted, tempchange,
                   precfactor, ddfsnow, massbal, sampling, files, mb_mean1,
                   precfactor_raw, precfactor_out>>

\* "get variables" after the first run
GetVariables1 ==
    /\ pc = "sample1"
    /\ cur_iter = iterations
    /\ LET v == TraceVars(model, Locals)
       IN  /\ tempchange' = v.tempchange
           /\ precfactor' = v.precfactor
           /\ ddfsnow' = v.ddfsnow
           /\ massbal' = v.massbal
           /\ mb_mean1' = Mean(v.massbal)
    /\ pc' = "adjust"
    /\ UNCHANGED <<exc, stdout>>
    /\ UNCHANGED batch
    /\ UNCHANGED apart
    /\ UNCHANGED <<modelparameters, modelparameters_copy, glac_wide_massbaltotal>>
    /\ UNCHANGED <<input, main_glac_rgi, glac, glacier_cal_data, distribution_type, shifted,
                   prior, iterations, burn, thin, cur_iter, cur, model, sampling, files,
                   runs, precfactor_raw, precfactor_out, mp_copy2>>

\* "ADJUST PRIOR DISTRIBUTIONS (if necessary)": the test is false
NoAdjust ==
    /\ pc = "adjust"
    /\ ~NeedsAdjust(massbal)
    /\ pc' = "stratify"
    /\ UNCHANGED <<exc, stdout>>
    /\ UNCHANGED batch
    /\ UNCHANGED apart
    /\ UNCHANGED <<modelparameters, modelparameters_copy, glac_wide_massbaltotal>>
    /\ UNCHANGED <<input, main_glac_rgi, glac, glacier_cal_data, distribution_type, shifted,
                   prior, iterations, burn, thin, cur_iter, cur, model, tempchange,
                   precfactor, ddfsnow, massbal, sampling, files, runs, mb_mean1,
                   precfactor_raw, precfactor_out, mp_copy2>>

\* the test is true: shifted priors and the second run_MCMC call
AdjustPriors ==
    /\ pc = "adjust"
    /\ NeedsAdjust(massbal)
    /\ distribution_type' = mcmc_distribution_type_2
    /\ shifted' = ShiftedValues(precfactor, tempchange, massbal)
    /\ StartMCMC(distribution_type', RetryArgs(shifted'), input.mcmc_sample_no,
                 input.mcmc_burn_no, thin_default)
    /\ runs' = runs + 1
    /\ pc' = "sample2"
    /\ UNCHANGED <<exc, stdout>>
    /\ UNCHANGED batch
    /\ UNCHANGED apart
    /\ UNCHANGED <<input, main_glac_rgi, glac, glacier_cal_data, tempchange, precfactor,
                   ddfsnow, massbal, sampling, files, mb_mean1, precfactor_raw,
                   precfactor_out>>

\* "get variables" after the second run
GetVariables2 ==
    /\ pc = "sample2"
    /\ cur_iter = iterations
    /\ LET v == TraceVars(model, Locals)
       IN  /\ tempchange' = v.tempchange
           /\ precfactor' = v.precfactor
           /\ ddfsnow' = v.ddfsnow
           /\ massbal' = v.massbal
    /\ pc' = AfterSecondRun
    /\ UNCHANGED <<exc, stdout>>
    /\ UNCHANGED batch
    /\ UNCHANGED apart
    /\ UNCHANGED <<modelparameters, modelparameters_copy, glac_wide_massbaltotal>>
    /\ UNCHANGED <<input, main_glac_rgi, glac, glacier_cal_data, distribution_type, shifted,
                   prior, iterations, burn, thin, cur_iter, cur, model, sampling, files,
                   runs, mb_mean1, precfactor_raw, precfactor_out, mp_copy2>>

\* the exception kinds of the failure model
InsufficientSamplesError == "InsufficientSamplesError"
NumericalInstabilityError == "NumericalInstabilityError"

\* an exception caught inside the loop body, the body going on with process_df
AfterRaise_swallowed ==
    "process"

\* where main stands after an exception inside the loop body: nothing catches
\* it, so main is left and the worker ends
AfterRaise ==
    "raised"

\* an evaluation of the forward model inside model.sample raises; neither
\* run_MCMC nor main catches anything, so the exception ends the worker
SampleRaises ==
    /\ pc \in {"sample1", "sample2"}
    /\ cur_iter < iterations
    /\ pc' = AfterRaise
    /\ exc' = NumericalInstabilityError
    /\ UNCHANGED stdout
    /\ UNCHANGED batch
    /\ UNCHANGED apart
    /\ UNCHANGED <<modelparameters, modelparameters_copy, glac_wide_massbaltotal>>
    /\ UNCHANGED <<input, main_glac_rgi, glac, glacier_cal_data, distribution_type, shifted,
                   prior, iterations, burn, thin, cur_iter, cur, model, tempchange,
                   precfactor, ddfsnow, massbal, sampling, files, runs, mb_mean1,
                   precfactor_raw, precfactor_out, mp_copy2>>

\* the column 'massbal' of a dataframe
MassbalColumn(df) ==
    [r \in 1..Len(df) |-> df[r].massbal]

\* the summary line only, without the line about a mean outside the bounds
PrintedLines_silent(name, df) ==
    {[glacier |-> name, line |-> "ensemble"]}

\* print('RGIId:', glacier_str, ...) and, when the ensemble mean is more than
\* 0.1 away from the observation, print(glacier_str + ' still outside bounds!')
PrintedLines(name, df) ==
    {[glacier |-> name, line |-> "ensemble"]} \cup
    (IF RLt(Tolerance, RAbs(RSub(observed_massbal, Mean(MassbalColumn(df)))))
     THEN {[glacier |-> name, line |-> "still outside bounds!"]}
     ELSE {})

\* sampling = es.stratified_sample(..., samples=input.ensemble_no)
StratifiedSample ==
    /\ pc = "stratify"
    /\ Len(massbal) >= input.ensemble_no
    /\ sampling' = stratified_sample(tempchange, precfactor, ddfsnow, massbal,
                                     input.ensemble_no)
    /\ pc' = "process"
    /\ stdout' = stdout \cup PrintedLines(glacier_str, sampling')
    /\ UNCHANGED exc
    /\ UNCHANGED batch
    /\ UNCHANGED apart
    /\ UNCHANGED <<modelparameters, modelparameters_copy, glac_wide_massbaltotal>>
    /\ UNCHANGED <<input, main_glac_rgi, glac, glacier_cal_data, distribution_type, shifted,
                   prior, iterations, burn, thin, cur_iter, cur, model, tempchange,
                   precfactor, ddfsnow, massbal, files, runs, mb_mean1,
                   precfactor_raw, precfactor_out, mp_copy2>>

\* es.stratified_sample raises (fewer samples than ensemble members); main
\* catches nothing, so the exception ends the worker
StratifiedSampleRaises ==
    /\ pc = "stratify"
    /\ Len(massbal) < input.ensemble_no
    /\ pc' = AfterRaise
    /\ exc' = InsufficientSamplesError
    /\ UNCHANGED stdout
    /\ UNCHANGED batch
    /\ UNCHANGED apart
    /\ UNCHANGED <<modelparameters, modelparameters_copy, glac_wide_massbaltotal>>
    /\ UNCHANGED <<input, main_glac_rgi, glac, glacier_cal_data, distribution_type, shifted,
                   prior, iterations, burn, thin, cur_iter, cur, model, tempchange,
                   precfactor, ddfsnow, massbal, sampling, files, runs, mb_mean1,
                   precfactor_raw, precfactor_out, mp_copy2>>

\* df = process_df(sampling); ds = xr.Dataset({glacier_str: da}); ds.to_netcdf(...);
\* then the next glacier of the loop
Persist ==
    /\ pc = "process"
    /\ files' = (glacier_str :> Dataset(glacier_str, process_df(sampling))) @@ files
    /\ glac' = glac + 1
    /\ pc' = IF glac < Len(main_glac_rgi) THEN "select" ELSE "done"
    /\ UNCHANGED <<exc, stdout>>
    /\ UNCHANGED batch
    /\ UNCHANGED apart
    /\ UNCHANGED <<modelparameters, modelparameters_copy, glac_wide_massbaltotal>>
    /\ UNCHANGED <<input, main_glac_rgi, glacier_cal_data, distribution_type, shifted,
                   prior, iterations, burn, thin, cur_iter, cur, model, tempchange,
                   precfactor, ddfsnow, massbal, sampling, runs, mb_mean1,
                   precfactor_raw, precfactor_out, mp_copy2>>

\* __main__ has not started
BatchIdle ==
    /\ main_glac_rgi_all = <<>>
    /\ parsed_args = None
    /\ script = "calibration"
    /\ cal_glacno = {}
    /\ chunk_size = 0
    /\ list_packed_vars = <<>>
    /\ driver_pc = "idle"
    /\ filelist = {}
    /\ writes = {}
    /\ tasks = <<>>
    /\ da_dict = <<>>
    /\ mcmc_output = None

Configs ==
    {[mcmc_sample_no |-> SampleNo, mcmc_burn_no |-> BurnNo, ensemble_no |-> k] :
        k \in 1..MaxEnsemble}

Init ==
    /\ input \in Configs
    /\ main_glac_rgi \in GlacierStrs
    /\ glac = 1
    /\ pc = "select"
    /\ glacier_cal_data = None
    /\ distribution_type = None
    /\ shifted = None
    /\ prior = None
    /\ iterations = 0
    /\ burn = 0
    /\ thin = 1
    /\ cur_iter = 0
    /\ cur = None
    /\ model = EmptyTrace
    /\ tempchange = <<>>
    /\ precfactor = <<>>
    /\ ddfsnow = <<>>
    /\ massbal = <<>>
    /\ sampling = <<>>
    /\ files = <<>>
    /\ runs = 0
    /\ mb_mean1 = None
    /\ precfactor_raw = <<>>
    /\ precfactor_out = <<>>
    /\ mp_copy2 = None
    /\ exc = None
    /\ stdout = {}
    /\ BatchIdle
    /\ modelparameters = <<>>
    /\ modelparameters_copy = <<>>
    /\ glac_wide_massbaltotal = <<>>
    /\ ApartIdle

Next ==
    \/ SelectGlacier
    \/ FirstRun
    \/ SampleIter
    \/ SampleRaises
    \/ GetVariables1
    \/ NoAdjust
    \/ AdjustPriors
    \/ GetVariables2
    \/ StratifiedSample
    \/ StratifiedSampleRaises
    \/ Persist

Spec == Init /\ [][Next]_vars

-----------------------------------------------------------------------------
(* Ensemble sampling, process_df and the netcdf record for any trace.      *)

\* the tallied values of one iteration
TraceRows ==
    {c \in [precfactor : PFVals, tempchange : TCVals, ddfsnow : DDFVals, massbal : MBVals] :
        /\ (c.ddfsnow = ddfsnow_mu) <=> (c.precfactor = RInt(1))
        /\ (c.tempchange = RInt(2)) <=> (c.massbal = Rat(-4, 10))}

\* the traces of a finished calibration, of any length from 1 to MaxTrace
Traces ==
    UNION {[1..n -> TraceRows] : n \in 1..MaxTrace}

InitStrat ==
    /\ input \in Configs
    /\ main_glac_rgi \in GlacierStrs
    /\ glac = 1
    /\ pc = "stratify"
    /\ glacier_cal_data \in CalData
    /\ distribution_type = mcmc_distribution_type
    /\ shifted = None
    /\ prior = None
    /\ iterations = 0
    /\ burn = 0
    /\ thin = 1
    /\ cur_iter = 0
    /\ cur = None
    /\ \E tr \in Traces :
          /\ model = [tempchange |-> [i \in DOMAIN tr |-> tr[i].tempchange],
                      precfactor |-> [i \in DOMAIN tr |-> tr[i].precfactor],
                      ddfsnow |-> [i \in DOMAIN tr |-> tr[i].ddfsnow],
                      massbal |-> [i \in DOMAIN tr |-> tr[i].massbal]]
          /\ tempchange = model.tempchange
          /\ precfactor = model.precfactor
          /\ ddfsnow = model.ddfsnow
          /\ massbal = model.massbal
    /\ sampling = <<>>
    /\ files = <<>>
    /\ runs = 1
    /\ mb_mean1 = Mean(massbal)
    /\ precfactor_raw = <<>>
    /\ precfactor_out = <<>>
    /\ mp_copy2 = None
    /\ exc = None
    /\ stdout = {}
    /\ BatchIdle
    /\ modelparameters = <<>>
    /\ modelparameters_copy = <<>>
    /\ glac_wide_massbaltotal = <<>>
    /\ ApartIdle

NextStrat ==
    \/ StratifiedSample
    \/ StratifiedSampleRaises
    \/ Persist

SpecStrat == InitStrat /\ [][NextStrat]_vars

-----------------------------------------------------------------------------
(* A stand-alone call of run_MCMC with any iterations, burn and thin.      *)

\* keyword arguments narrowing the priors of precfactor and tempchange
StandaloneArgs ==
    [DefaultArgs EXCEPT !.precfactor_boundlow = RInt(0), !.tempchange_boundlow = RInt(0)]

CallRunMCMC ==
    /\ pc = "call"
    /\ \E dtype \in {mcmc_distribution_type, mcmc_distribution_type_2},
          it \in 1..MaxIter, t \in 1..MaxThin :
          \E b \in 0..(it - 1) :
              /\ distribution_type' = dtype
              /\ StartMCMC(dtype, StandaloneArgs, it, b, t)
    /\ pc' = "sample"
    /\ UNCHANGED <<exc, stdout>>
    /\ UNCHANGED batch
    /\ UNCHANGED apart
    /\ UNCHANGED <<input, main_glac_rgi, glac, glacier_cal_data, shifted, tempchange,
                   precfactor, ddfsnow, massbal, sampling, files, runs, mb_mean1,
                   precfactor_raw, precfactor_out>>

\* model.db.close(); return model
ReturnModel ==
    /\ pc = "sample"
    /\ cur_iter = iterations
    /\ pc' = "returned"
    /\ UNCHANGED <<exc, stdout>>
    /\ UNCHANGED batch
    /\ UNCHANGED apart
    /\ UNCHANGED <<modelparameters, modelparameters_copy, glac_wide_massbaltotal>>
    /\ UNCHANGED <<input, main_glac_rgi, glac, glacier_cal_data, distribution_type, shifted,
                   prior, iterations, burn, thin, cur_iter, cur, model, tempchange,
                   precfactor, ddfsnow, massbal, sampling, files, runs, mb_mean1,
                   precfactor_raw, precfactor_out, mp_copy2>>

\* the exceptions a run_MCMC call with unusable priors ends with: Python's for
\* the division by precfactor_sigma, pymc's for a prior without support
ZeroDivisionError == "ZeroDivisionError"
ZeroProbability == "ZeroProbability"

\* keyword arguments with a standard deviation that is zero or negative, or
\* with the bounds of the precipitation factor the wrong way round
InvalidArgs ==
    {[StandaloneArgs EXCEPT !.precfactor_sigma = RInt(0)],
     [StandaloneArgs EXCEPT !.precfactor_sigma = RInt(-1)],
     [StandaloneArgs EXCEPT !.precfactor_boundlow = RInt(precfactor_boundhigh),
                            !.precfactor_boundhigh = RInt(precfactor_boundlow)]}

\* run_MCMC called with such arguments: nothing is validated; the truncated-
\* normal branch divides by precfactor_sigma, and pymc refuses a prior whose
\* lower bound is above its upper bound (the uniform branch reads no sigma);
\* no iteration is made
CallRunMCMCInvalid ==
    /\ pc = "call"
    /\ \E dtype \in {mcmc_distribution_type, mcmc_distribution_type_2}, args \in InvalidArgs :
          /\ dtype = mcmc_distribution_type_2 =>
                RLt(args.precfactor_boundhigh, args.precfactor_boundlow)
          /\ distribution_type' = dtype
          /\ exc' = IF dtype = mcmc_distribution_type /\ args.precfactor_sigma = RInt(0)
                    THEN ZeroDivisionError
                    ELSE ZeroProbability
    /\ pc' = AfterRaise
    /\ UNCHANGED stdout
    /\ UNCHANGED batch
    /\ UNCHANGED apart
    /\ UNCHANGED <<modelparameters, modelparameters_copy, glac_wide_massbaltotal>>
    /\ UNCHANGED <<input, main_glac_rgi, glac, glacier_cal_data, shifted, prior, iterations,
                   burn, thin, cur_iter, cur, model, tempchange, precfactor, ddfsnow,
                   massbal, sampling, files, runs, mb_mean1, precfactor_raw,
                   precfactor_out, mp_copy2>>

\* the program is executed once more with the same glacier and the same
\* arguments of run_MCMC; nothing seeds numpy's or pymc's random generator, so
\* the sampler draws afresh (followed for the calls without burn-in and
\* thinning of at most MaxTwinIter iterations)
RunAgain ==
    /\ pc = "returned"
    /\ executions = <<>>
    /\ iterations <= MaxTwinIter
    /\ burn = 0
    /\ thin = 1
    /\ executions' = Append(executions, model)
    /\ StartMCMC(distribution_type, StandaloneArgs, iterations, burn, thin)
    /\ pc' = "sample"
    /\ UNCHANGED <<exc, stdout>>
    /\ UNCHANGED batch
    /\ UNCHANGED <<cn_subset, modelparams_all, sim_iters, mp_spacing, mp_idx_start,
                   mp_idx_all, n_iter, mp_idx>>
    /\ UNCHANGED <<input, main_glac_rgi, glac, glacier_cal_data, distribution_type, shifted,
                   tempchange, precfactor, ddfsnow, massbal, sampling, files, runs,
                   mb_mean1, precfactor_raw, precfactor_out>>

InitMCMC ==
    /\ input \in Configs
    /\ main_glac_rgi \in GlacierStrs
    /\ glac = 1
    /\ pc = "call"
    /\ glacier_cal_data \in CalData
    /\ distribution_type = None
    /\ shifted = None
    /\ prior = None
    /\ iterations = 0
    /\ burn = 0
    /\ thin = 1
    /\ cur_iter = 0
    /\ cur = None
    /\ model = EmptyTrace
    /\ tempchange = <<>>
    /\ precfactor = <<>>
    /\ ddfsnow = <<>>
    /\ massbal = <<>>
    /\ sampling = <<>>
    /\ files = <<>>
    /\ runs = 0
    /\ mb_mean1 = None
    /\ precfactor_raw = <<>>
    /\ precfactor_out = <<>>
    /\ mp_copy2 = None
    /\ exc = None
    /\ stdout = {}
    /\ BatchIdle
    /\ modelparameters = Baseline
    /\ modelparameters_copy = <<>>
    /\ glac_wide_massbaltotal = <<>>
    /\ ApartIdle

NextMCMC ==
    \/ CallRunMCMC
    \/ CallRunMCMCInvalid
    \/ RunAgain
    \/ SampleIter
    \/ ReturnModel

SpecMCMC == InitMCMC /\ [][NextMCMC]_vars

-----------------------------------------------------------------------------
(* The precipitation-factor transformation applied to any raw values.      *)

\* the glacier-wide mass balances runmassbalance may return for the time steps
SeriesVals == {Rat(-1, 2), Rat(1, 4)}
Series ==
    UNION {[1..n -> SeriesVals] : n \in 1..MaxSteps}

\* calibration rows with any window of time steps and two lengths in years
CalWindows ==
    {[mb_mwe |-> Rat(-15, 2), mb_mwe_err |-> RInt(3), t1 |-> 2000, t2 |-> t2,
      t1_idx |-> a, t2_idx |-> b] :
        t2 \in {2002, 2015}, a \in 0..(MaxSteps - 1), b \in 1..MaxSteps}

RawArrays ==
    UNION {[1..n -> RawVals] : n \in 1..MaxArray}

\* precfactor_transformed = prec_transformation(precfactor)
CallPrecTransformation ==
    /\ pc = "prec"
    /\ precfactor_out' = prec_transformation(precfactor_raw)
    /\ pc' = "prec_done"
    /\ UNCHANGED <<exc, stdout>>
    /\ UNCHANGED batch
    /\ UNCHANGED apart
    /\ UNCHANGED <<modelparameters, modelparameters_copy, glac_wide_massbaltotal>>
    /\ UNCHANGED <<input, main_glac_rgi, glac, glacier_cal_data, distribution_type, shifted,
                   prior, iterations, burn, thin, cur_iter, cur, model, tempchange,
                   precfactor, ddfsnow, massbal, sampling, files, runs, mb_mean1,
                   precfactor_raw, mp_copy2>>

\* massbal evaluated with precfactor = precfactor_raw[0] and the prior means of
\* ddfsnow and tempchange, runmassbalance returning any series
CallMassbal ==
    /\ pc = "prec"
    /\ mp_copy2' = massbal_prec(precfactor_raw[1])
    /\ \E series \in Series :
          /\ Evaluate(precfactor_raw[1], ddfsnow_mu, RInt(tempchange_mu), series)
          /\ cur' = [precfactor |-> precfactor_raw[1], tempchange |-> RInt(tempchange_mu),
                     ddfsnow |-> ddfsnow_mu,
                     massbal |-> massbal_return(series, glacier_cal_data)]
    /\ pc' = "massbal_done"
    /\ UNCHANGED <<exc, stdout>>
    /\ UNCHANGED batch
    /\ UNCHANGED apart
    /\ UNCHANGED <<input, main_glac_rgi, glac, glacier_cal_data, distribution_type, shifted,
                   prior, iterations, burn, thin, cur_iter, model, tempchange,
                   precfactor, ddfsnow, massbal, sampling, files, runs, mb_mean1,
                   precfactor_raw, precfactor_out>>

\* a call of prec_transformation or of massbal: any array with the standard
\* calibration row, any window of time steps with one array
InitPrec ==
    /\ input \in Configs
    /\ main_glac_rgi \in GlacierStrs
    /\ glac = 1
    /\ pc = "prec"
    /\ glacier_cal_data \in CalData \cup CalWindows
    /\ distribution_type = None
    /\ shifted = None
    /\ prior = None
    /\ iterations = 0
    /\ burn = 0
    /\ thin = 1
    /\ cur_iter = 0
    /\ cur = None
    /\ model = EmptyTrace
    /\ tempchange = <<>>
    /\ precfactor = <<>>
    /\ ddfsnow = <<>>
    /\ massbal = <<>>
    /\ sampling = <<>>
    /\ files = <<>>
    /\ runs = 0
    /\ mb_mean1 = None
    /\ precfactor_raw \in IF glacier_cal_data \in CalData THEN RawArrays ELSE {<<RInt(1)>>}
    /\ precfactor_out = <<>>
    /\ mp_copy2 = None
    /\ exc = None
    /\ stdout = {}
    /\ BatchIdle
    /\ modelparameters = Baseline
    /\ modelparameters_copy = <<>>
    /\ glac_wide_massbaltotal = <<>>
    /\ ApartIdle

NextPrec ==
    \/ CallPrecTransformation
    \/ CallMassbal

SpecPrec == InitPrec /\ [][NextPrec]_vars

-----------------------------------------------------------------------------
(* __main__: chunking, the workers, and the merge of the per-glacier files.*)

\* the variables of main's glacier loop that __main__ does not touch
calib == <<input, main_glac_rgi, glac, pc, glacier_cal_data, distribution_type, shifted,
           prior, iterations, burn, thin, cur_iter, cur, model, tempchange, precfactor,
           ddfsnow, massbal, sampling, runs, mb_mean1, precfactor_raw, precfactor_out,
           mp_copy2, exc>>

Min(a, b) ==
    IF a <= b THEN a ELSE b

\* int(np.ceil(a / b)) for positive integers
CeilDiv(a, b) ==
    (a + b - 1) \div b

\* run_calibration: the pool is used when option_parallels is set and there
\* are at least two glaciers per process
UsesPoolCalibration(n, a) ==
    a.option_parallels /= 0 /\ n >= 2 * a.num_simultaneous_processes

\* run_simulation: the pool is used when option_parallels is set
UsesPoolSimulation(n, a) ==
    a.option_parallels /= 0

UsesPool ==
    IF script = "calibration"
    THEN UsesPoolCalibration(Len(main_glac_rgi_all), parsed_args)
    ELSE UsesPoolSimulation(Len(main_glac_rgi_all), parsed_args)

\* run_calibration: chunk_size
ChunkSizeCalibration(n, a) ==
    IF UsesPoolCalibration(n, a) THEN CeilDiv(n, a.num_simultaneous_processes) ELSE n

\* run_simulation: num_cores = min(N, processes); chunk_size = ceil(N / num_cores)
ChunkSizeSimulation(n, a) ==
    IF UsesPoolSimulation(n, a)
    THEN CeilDiv(n, Min(n, a.num_simultaneous_processes))
    ELSE n

DefineChunkSize ==
    /\ driver_pc = "chunk_size"
    /\ chunk_size' = IF script = "calibration"
                     THEN ChunkSizeCalibration(Len(main_glac_rgi_all), parsed_args)
                     ELSE ChunkSizeSimulation(Len(main_glac_rgi_all), parsed_args)
    /\ driver_pc' = "pack"
    /\ UNCHANGED <<writes, filelist, main_glac_rgi_all, parsed_args, script, cal_glacno, list_packed_vars,
                   tasks, da_dict, mcmc_output, files, stdout>>
    /\ UNCHANGED calib
    /\ UNCHANGED apart
    /\ UNCHANGED <<modelparameters, modelparameters_copy, glac_wide_massbaltotal>>

\* range(0, n, step) as a sequence
Range(n, step) ==
    [k \in 1..CeilDiv(n, step) |-> (k - 1) * step]

\* run_calibration: [n, chunk, chunk_size, main_glac_rgi_all, gcm_name]
PackedCalibration(n, chunk) ==
    <<n, chunk, chunk_size, main_glac_rgi_all>>

\* run_simulation: [n, chunk, main_glac_rgi_all, chunk_size, gcm_name]
PackedSimulation(n, chunk) ==
    <<n, chunk, main_glac_rgi_all, chunk_size>>

\* a call main(list_packed_vars[n]) that has not started
WaitingTask ==
    [status |-> "waiting", main_glac_rgi_raw |-> <<>>, main_glac_rgi |-> <<>>, glac |-> 0,
     exc |-> None]

\* for chunk in range(0, N, chunk_size): n = n + 1; list_packed_vars.append(...)
PackVariables ==
    /\ driver_pc = "pack"
    /\ list_packed_vars' =
          [n \in DOMAIN Range(Len(main_glac_rgi_all), chunk_size) |->
              IF script = "calibration"
              THEN PackedCalibration(n, Range(Len(main_glac_rgi_all), chunk_size)[n])
              ELSE PackedSimulation(n, Range(Len(main_glac_rgi_all), chunk_size)[n])]
    /\ tasks' = [n \in DOMAIN list_packed_vars' |-> WaitingTask]
    /\ driver_pc' = IF script = "calibration" THEN "clear" ELSE "run"
    /\ UNCHANGED <<writes, filelist, main_glac_rgi_all, parsed_args, script, cal_glacno, chunk_size,
                   da_dict, mcmc_output, files, stdout>>
    /\ UNCHANGED calib
    /\ UNCHANGED apart
    /\ UNCHANGED <<modelparameters, modelparameters_copy, glac_wide_massbaltotal>>

\* a directory left as it was found
RemoveAll_none(dir, names) ==
    dir

\* for f in filelist: os.remove(f)
RemoveAll(dir, names) ==
    [fn \in DOMAIN dir \ names |-> dir[fn]]

\* filelist = glob.glob(os.path.join(input.mcmc_output_parallel_fp, '*.nc')) and
\* the removal of these files of the previous run
ClearFiles ==
    /\ driver_pc = "clear"
    /\ filelist' = DOMAIN files
    /\ files' = RemoveAll(files, filelist')
    /\ driver_pc' = "run"
    /\ UNCHANGED <<writes, main_glac_rgi_all, parsed_args, script, cal_glacno, chunk_size,
                   list_packed_vars, tasks, da_dict, mcmc_output, stdout>>
    /\ UNCHANGED calib
    /\ UNCHANGED apart
    /\ UNCHANGED <<modelparameters, modelparameters_copy, glac_wide_massbaltotal>>

\* main's unpacking of list_packed_vars by position
Unpacked(packed) ==
    IF script = "calibration"
    THEN [count |-> packed[1], chunk |-> packed[2], chunk_size |-> packed[3],
          main_glac_rgi_all |-> packed[4]]
    ELSE [count |-> packed[1], chunk |-> packed[2], main_glac_rgi_all |-> packed[3],
          chunk_size |-> packed[4]]

\* a slice that takes stop - start as its stop
iloc_length(table, start, stop) ==
    SubSeq(table, start + 1, Min(stop - start, Len(table)))

\* a slice that starts one row early
iloc_overlap(table, start, stop) ==
    SubSeq(table, IF start > 0 THEN start ELSE 1, Min(stop, Len(table)))

\* table.iloc[start:stop, :]: rows start..stop-1 (0-based), cut at the table's end
iloc(table, start, stop) ==
    SubSeq(table, start + 1, Min(stop, Len(table)))

\* the glaciers without calibration data are dropped
DropNoData(raw) ==
    SelectSeq(raw, LAMBDA g : g \in cal_glacno)

\* main(list_packed_vars[n]) starts: unpack, take the chunk, load the data
TaskStart(n) ==
    /\ driver_pc = "run"
    /\ tasks[n].status = "waiting"
    /\ UsesPool \/ \A m \in 1..(n - 1) : tasks[m].status = "returned"
    /\ LET u == Unpacked(list_packed_vars[n])
           raw == iloc(u.main_glac_rgi_all, u.chunk, u.chunk + u.chunk_size)
       IN  tasks' = [tasks EXCEPT ![n] =
                        [status |-> "running", main_glac_rgi_raw |-> raw,
                         main_glac_rgi |-> IF script = "calibration" THEN DropNoData(raw)
                                           ELSE raw,
                         glac |-> 1, exc |-> None]]
    /\ UNCHANGED <<writes, filelist, main_glac_rgi_all, parsed_args, script, cal_glacno, chunk_size,
                   list_packed_vars, driver_pc, da_dict, mcmc_output, files, stdout>>
    /\ UNCHANGED calib
    /\ UNCHANGED apart
    /\ UNCHANGED <<modelparameters, modelparameters_copy, glac_wide_massbaltotal>>

\* the ensembles a calibration may end with in the runs of __main__
BatchEnsembles ==
    {stratified_sample(<<c.tempchange>>, <<c.precfactor>>, <<c.ddfsnow>>, <<c.massbal>>, 1) :
        c \in {r \in TraceRows : r.precfactor = RInt(1) /\ r.tempchange = RInt(-2)}}

\* the exceptions a calibration may end with
Failures ==
    {NumericalInstabilityError, InsufficientSamplesError}

\* one pass of main's glacier loop that reaches to_netcdf
TaskCalibrate(n) ==
    /\ driver_pc = "run"
    /\ tasks[n].status = "running"
    /\ tasks[n].glac <= Len(tasks[n].main_glac_rgi)
    /\ script = "calibration"
    /\ \E ens \in BatchEnsembles :
          LET name == Format5f(tasks[n].main_glac_rgi[tasks[n].glac])
          IN  /\ files' = (name :> Dataset(name, process_df(ens))) @@ files
              /\ writes' = writes \cup {[worker |-> n, file |-> name]}
              /\ stdout' = stdout \cup PrintedLines(name, ens)
    /\ tasks' = [tasks EXCEPT ![n].glac = @ + 1]
    /\ UNCHANGED <<filelist, main_glac_rgi_all, parsed_args, script, cal_glacno, chunk_size,
                   list_packed_vars, driver_pc, da_dict, mcmc_output>>
    /\ UNCHANGED calib
    /\ UNCHANGED apart
    /\ UNCHANGED <<modelparameters, modelparameters_copy, glac_wide_massbaltotal>>

\* run_simulation: the name of a glacier's output file for the reference
\* climate data, gcm_name + ... + '--' + glacier_RGIId + '.nc'
netcdf_fn(glacier_RGIId) ==
    <<"ERA-Interim", "--">> \o glacier_RGIId \o <<".nc">>

\* run_simulation: one pass of main's glacier loop, from output.netcdfcreate
\* to output_ds_all.to_netcdf, all on the glacier's own file
TaskSimulate(n) ==
    /\ driver_pc = "run"
    /\ tasks[n].status = "running"
    /\ tasks[n].glac <= Len(tasks[n].main_glac_rgi)
    /\ script = "simulation"
    /\ LET name == netcdf_fn(Format5f(tasks[n].main_glac_rgi[tasks[n].glac]))
       IN  /\ files' = (name :> [name |-> name, values |-> <<>>, attrs |-> <<>>]) @@ files
           /\ writes' = writes \cup {[worker |-> n, file |-> name]}
    /\ tasks' = [tasks EXCEPT ![n].glac = @ + 1]
    /\ UNCHANGED <<filelist, main_glac_rgi_all, parsed_args, script, cal_glacno, chunk_size,
                   list_packed_vars, driver_pc, da_dict, mcmc_output, stdout>>
    /\ UNCHANGED calib
    /\ UNCHANGED apart
    /\ UNCHANGED <<modelparameters, modelparameters_copy, glac_wide_massbaltotal>>

\* the traceback of an uncaught exception: its kind, and no glacier_str
Traceback(e) ==
    [glacier |-> <<>>, line |-> e]

\* one pass of main's glacier loop that raises: main is left; without the
\* pool the exception leaves __main__ as well
TaskRaises(n) ==
    /\ driver_pc = "run"
    /\ tasks[n].status = "running"
    /\ tasks[n].glac <= Len(tasks[n].main_glac_rgi)
    /\ \E e \in Failures :
          /\ tasks' = [tasks EXCEPT ![n].status = AfterRaise, ![n].exc = e]
          /\ stdout' = IF UsesPool THEN stdout ELSE stdout \cup {Traceback(e)}
    /\ driver_pc' = IF UsesPool THEN driver_pc ELSE "aborted"
    /\ UNCHANGED <<writes, filelist, main_glac_rgi_all, parsed_args, script, cal_glacno, chunk_size,
                   list_packed_vars, da_dict, mcmc_output, files>>
    /\ UNCHANGED calib
    /\ UNCHANGED apart
    /\ UNCHANGED <<modelparameters, modelparameters_copy, glac_wide_massbaltotal>>

\* main returns after the last glacier of its chunk
TaskReturn(n) ==
    /\ driver_pc = "run"
    /\ tasks[n].status = "running"
    /\ tasks[n].glac > Len(tasks[n].main_glac_rgi)
    /\ tasks' = [tasks EXCEPT ![n].status = "returned"]
    /\ UNCHANGED <<writes, filelist, main_glac_rgi_all, parsed_args, script, cal_glacno, chunk_size,
                   list_packed_vars, driver_pc, da_dict, mcmc_output, files, stdout>>
    /\ UNCHANGED calib
    /\ UNCHANGED apart
    /\ UNCHANGED <<modelparameters, modelparameters_copy, glac_wide_massbaltotal>>

\* p.map re-raises the exception of a worker; leaving the with block
\* terminates the pool and the calls still running
PoolMapRaises ==
    /\ driver_pc = "run"
    /\ UsesPool
    /\ \E n \in DOMAIN tasks :
          /\ tasks[n].status = "raised"
          /\ stdout' = stdout \cup {Traceback(tasks[n].exc)}
    /\ tasks' = [n \in DOMAIN tasks |->
                    IF tasks[n].status \in {"waiting", "running"}
                    THEN [tasks[n] EXCEPT !.status = "terminated"]
                    ELSE tasks[n]]
    /\ driver_pc' = "aborted"
    /\ UNCHANGED <<writes, filelist, main_glac_rgi_all, parsed_args, script, cal_glacno, chunk_size,
                   list_packed_vars, da_dict, mcmc_output, files>>
    /\ UNCHANGED calib
    /\ UNCHANGED apart
    /\ UNCHANGED <<modelparameters, modelparameters_copy, glac_wide_massbaltotal>>

\* p.map, or the loop over list_packed_vars, returns
MapReturns ==
    /\ driver_pc = "run"
    /\ \A n \in DOMAIN tasks : tasks[n].status = "returned"
    /\ driver_pc' = "merge"
    /\ UNCHANGED <<writes, filelist, main_glac_rgi_all, parsed_args, script, cal_glacno, chunk_size,
                   list_packed_vars, tasks, da_dict, mcmc_output, files, stdout>>
    /\ UNCHANGED calib
    /\ UNCHANGED apart
    /\ UNCHANGED <<modelparameters, modelparameters_copy, glac_wide_massbaltotal>>

\* for each .nc file: glacier_RGIId = i[:-3]; da_dict[glacier_RGIId] = ds[glacier_RGIId];
\* then xr.Dataset(da_dict).to_netcdf(mcmc_output_fp + mcmc_output_filename)
Merge ==
    /\ driver_pc = "merge"
    /\ da_dict' = [fn \in DOMAIN files |-> files[fn].values]
    /\ mcmc_output' = [variables |-> da_dict']
    /\ driver_pc' = "done"
    /\ UNCHANGED <<writes, filelist, main_glac_rgi_all, parsed_args, script, cal_glacno, chunk_size,
                   list_packed_vars, tasks, files, stdout>>
    /\ UNCHANGED calib
    /\ UNCHANGED apart
    /\ UNCHANGED <<modelparameters, modelparameters_copy, glac_wide_massbaltotal>>

\* main's loop variables while __main__ is followed as a whole
CalibIdle ==
    /\ input \in {c \in Configs : c.ensemble_no = 1}
    /\ main_glac_rgi = <<>>
    /\ glac = 0
    /\ pc = "batch"
    /\ glacier_cal_data \in CalData
    /\ distribution_type = None
    /\ shifted = None
    /\ prior = None
    /\ iterations = 0
    /\ burn = 0
    /\ thin = 1
    /\ cur_iter = 0
    /\ cur = None
    /\ model = EmptyTrace
    /\ tempchange = <<>>
    /\ precfactor = <<>>
    /\ ddfsnow = <<>>
    /\ massbal = <<>>
    /\ sampling = <<>>
    /\ runs = 0
    /\ mb_mean1 = None
    /\ precfactor_raw = <<>>
    /\ precfactor_out = <<>>
    /\ mp_copy2 = None
    /\ exc = None

\* the command lines
ParsedArgs ==
    [option_parallels : {0, 1}, num_simultaneous_processes : 1..MaxProc]

\* the directory of per-glacier files as a previous run may have left it
StaleFiles ==
    {<<>>} \cup
    {(Format5f(RGIId_float(1)) :> Dataset(Format5f(RGIId_float(1)), process_df(ens))) :
        ens \in BatchEnsembles}

\* the start of __main__ of run_calibration
InitBatch ==
    /\ CalibIdle
    /\ modelparameters = <<>>
    /\ modelparameters_copy = <<>>
    /\ glac_wide_massbaltotal = <<>>
    /\ ApartIdle
    /\ \E n \in 1..MaxGlaciers : main_glac_rgi_all = [i \in 1..n |-> RGIId_float(i)]
    /\ parsed_args \in ParsedArgs
    /\ script = "calibration"
    /\ cal_glacno \in SUBSET {main_glac_rgi_all[i] : i \in DOMAIN main_glac_rgi_all}
    /\ chunk_size = 0
    /\ list_packed_vars = <<>>
    /\ driver_pc = "chunk_size"
    /\ filelist = {}
    /\ writes = {}
    /\ tasks = <<>>
    /\ da_dict = <<>>
    /\ mcmc_output = None
    /\ files \in StaleFiles
    /\ stdout = {}

NextBatch ==
    \/ DefineChunkSize
    \/ PackVariables
    \/ ClearFiles
    \/ \E n \in DOMAIN tasks : TaskStart(n)
    \/ \E n \in DOMAIN tasks : TaskCalibrate(n)
    \/ \E n \in DOMAIN tasks : TaskRaises(n)
    \/ \E n \in DOMAIN tasks : TaskReturn(n)
    \/ PoolMapRaises
    \/ MapReturns
    \/ Merge

SpecBatch == InitBatch /\ [][NextBatch]_vars

\* the start of __main__ of either driver, every glacier having calibration data
InitChunk ==
    /\ CalibIdle
    /\ modelparameters = <<>>
    /\ modelparameters_copy = <<>>
    /\ glac_wide_massbaltotal = <<>>
    /\ ApartIdle
    /\ \E n \in 1..MaxGlaciers : main_glac_rgi_all = [i \in 1..n |-> RGIId_float(i)]
    /\ parsed_args \in ParsedArgs
    /\ script \in {"calibration", "simulation"}
    /\ cal_glacno = {main_glac_rgi_all[i] : i \in DOMAIN main_glac_rgi_all}
    /\ chunk_size = 0
    /\ list_packed_vars = <<>>
    /\ driver_pc = "chunk_size"
    /\ filelist = {}
    /\ writes = {}
    /\ tasks = <<>>
    /\ da_dict = <<>>
    /\ mcmc_output = None
    /\ files = <<>>
    /\ stdout = {}

\* chunking, the workers' selection of their chunk and their passes of the
\* glacier loop
NextChunk ==
    \/ DefineChunkSize
    \/ PackVariables
    \/ ClearFiles
    \/ \E n \in DOMAIN tasks : TaskStart(n)
    \/ \E n \in DOMAIN tasks : TaskCalibrate(n)
    \/ \E n \in DOMAIN tasks : TaskSimulate(n)
    \/ \E n \in DOMAIN tasks : TaskReturn(n)

SpecChunk == InitChunk /\ [][NextChunk]_vars

-----------------------------------------------------------------------------
(* run_simulation.py, main: the parameter sets of each glacier.            *)

\* input.modelparams_colnames as pygem_input sets it
modelparams_colnames ==
    <<"lrgcm", "lrglac", "precfactor", "precgrad", "ddfsnow", "ddfice", "tempsnow",
      "tempchange">>

\* the values run_simulation reads from pygem_input
SimConfigs ==
    [option_import_modelparams : {1}, option_calibration : {1, 2},
     sim_iters : 1..MaxSimIters, sim_burn : 0..MaxSimBurn,
     modelparams_colnames : {modelparams_colnames}]

\* the variables of run_calibration's main, which run_simulation's main lacks
calibonly == <<glacier_cal_data, distribution_type, shifted, prior, iterations, burn, thin,
               cur_iter, cur, model, tempchange, precfactor, ddfsnow, massbal, sampling,
               files, runs, mb_mean1, precfactor_raw, precfactor_out, mp_copy2, stdout,
               modelparameters, modelparameters_copy, glac_wide_massbaltotal, executions>>

\* int(a / b) for b > 0: the quotient cut towards zero
IntTrunc(a, b) ==
    IF a >= 0 THEN a \div b ELSE -((-a) \div b)

\* np.arange(start, stop, step) for step > 0
arange(start, stop, step) ==
    [k \in 1..(IF stop > start THEN CeilDiv(stop - start, step) ELSE 0) |->
        start + (k - 1) * step]

\* a spacing taken from all the rows, the burn-in included
SpacingOf_noburn(rows, sim_burn, iters) ==
    IntTrunc(rows, iters)

\* int((modelparams_all.shape[0] - input.sim_burn) / sim_iters)
SpacingOf(rows, sim_burn, iters) ==
    IntTrunc(rows - sim_burn, iters)

\* ds_mp = xr.open_dataset(...); cn_subset = input.modelparams_colnames;
\* cn_subset.append('massbal'); modelparams_all = pd.DataFrame(...)[cn_subset].
\* cn_subset is the list object of input, so the append changes that list
ImportModelparams ==
    /\ pc = "sim_import"
    /\ input.option_import_modelparams = 1
    /\ cn_subset' = Append(input.modelparams_colnames, "massbal")
    /\ input' = [input EXCEPT !.modelparams_colnames = cn_subset']
    /\ \E rows \in 1..MaxRows :
          modelparams_all' = [rows |-> rows, columns |-> cn_subset']
    /\ pc' = "sim_select"
    /\ UNCHANGED <<main_glac_rgi, glac, exc, sim_iters, mp_spacing, mp_idx_start,
                   mp_idx_all, n_iter, mp_idx>>
    /\ UNCHANGED batch
    /\ UNCHANGED calibonly

\* "Set the number of iterations and determine every kth iteration to use for
\* the ensemble"; np.random.shuffle makes any element of
\* arange(sim_burn, sim_burn + mp_spacing) the start
SelectParameterSets ==
    /\ pc = "sim_select"
    /\ IF input.option_calibration = 1 \/ modelparams_all.rows = 1
       THEN /\ sim_iters' = 1
            /\ UNCHANGED <<mp_spacing, mp_idx_start, mp_idx_all>>
       ELSE /\ sim_iters' = input.sim_iters
            /\ mp_spacing' = SpacingOf(modelparams_all.rows, input.sim_burn, sim_iters')
            /\ mp_spacing' > 0
            /\ mp_idx_start' \in input.sim_burn..(input.sim_burn + mp_spacing' - 1)
            /\ mp_idx_all' = arange(mp_idx_start', modelparams_all.rows, mp_spacing')
    /\ n_iter' = 0
    /\ pc' = "sim_loop"
    /\ UNCHANGED <<input, main_glac_rgi, glac, exc, cn_subset, modelparams_all, mp_idx>>
    /\ UNCHANGED batch
    /\ UNCHANGED calibonly

IndexError == "IndexError"

\* fewer rows after the burn-in than input.sim_iters: mp_spacing is 0, the
\* shuffled array is empty and mp_idx_start[0] raises
SelectRaises ==
    /\ pc = "sim_select"
    /\ input.option_calibration = 2
    /\ modelparams_all.rows > 1
    /\ sim_iters' = input.sim_iters
    /\ mp_spacing' = SpacingOf(modelparams_all.rows, input.sim_burn, sim_iters')
    /\ mp_spacing' <= 0
    /\ exc' = IndexError
    /\ pc' = AfterRaise
    /\ UNCHANGED <<input, main_glac_rgi, glac, cn_subset, modelparams_all, mp_idx_start,
                   mp_idx_all, n_iter, mp_idx>>
    /\ UNCHANGED batch
    /\ UNCHANGED calibonly

\* one pass of "for n_iter in range(sim_iters)": the mean of the parameter
\* sets when sim_iters is 1, else mp_idx = mp_idx_all[n_iter] (n_iter counts
\* the passes made)
SimulateParameterSet ==
    /\ pc = "sim_loop"
    /\ n_iter < sim_iters
    /\ IF sim_iters = 1
       THEN UNCHANGED mp_idx
       ELSE /\ n_iter + 1 \in DOMAIN mp_idx_all
            /\ mp_idx' = mp_idx_all[n_iter + 1]
    /\ n_iter' = n_iter + 1
    /\ UNCHANGED <<input, main_glac_rgi, glac, pc, exc, cn_subset, modelparams_all,
                   sim_iters, mp_spacing, mp_idx_start, mp_idx_all>>
    /\ UNCHANGED batch
    /\ UNCHANGED calibonly

\* the next glacier of "for glac in range(main_glac_rgi.shape[0])"
NextGlacier ==
    /\ pc = "sim_loop"
    /\ n_iter = sim_iters
    /\ glac' = glac + 1
    /\ pc' = IF glac < Len(main_glac_rgi) THEN "sim_import" ELSE "done"
    /\ UNCHANGED <<input, main_glac_rgi, exc, cn_subset, modelparams_all, sim_iters,
                   mp_spacing, mp_idx_start, mp_idx_all, n_iter, mp_idx>>
    /\ UNCHANGED batch
    /\ UNCHANGED calibonly

\* main of run_simulation at its glacier loop
InitSim ==
    /\ input \in SimConfigs
    /\ \E n \in 1..MaxGlaciers : main_glac_rgi = [i \in 1..n |-> RGIId_float(i)]
    /\ glac = 1
    /\ pc = "sim_import"
    /\ glacier_cal_data = None
    /\ distribution_type = None
    /\ shifted = None
    /\ prior = None
    /\ iterations = 0
    /\ burn = 0
    /\ thin = 1
    /\ cur_iter = 0
    /\ cur = None
    /\ model = EmptyTrace
    /\ tempchange = <<>>
    /\ precfactor = <<>>
    /\ ddfsnow = <<>>
    /\ massbal = <<>>
    /\ sampling = <<>>
    /\ files = <<>>
    /\ runs = 0
    /\ mb_mean1 = None
    /\ precfactor_raw = <<>>
    /\ precfactor_out = <<>>
    /\ mp_copy2 = None
    /\ exc = None
    /\ stdout = {}
    /\ BatchIdle
    /\ modelparameters = <<>>
    /\ modelparameters_copy = <<>>
    /\ glac_wide_massbaltotal = <<>>
    /\ ApartIdle

NextSim ==
    \/ ImportModelparams
    \/ SelectParameterSets
    \/ SelectRaises
    \/ SimulateParameterSet
    \/ NextGlacier

SpecSim == InitSim /\ [][NextSim]_vars

-----------------------------------------------------------------------------
(* Properties.                                                             *)

\* |mean of the first run's mass-balance trace - observed mass balance| <= 0.1
FirstRunWithinTolerance ==
    /\ mb_mean1 # None
    /\ RLe(RAbs(RSub(mb_mean1, observed_massbal)), Tolerance)

\* Delta of the first run
Delta1 ==
    RSub(mb_mean1, observed_massbal)

\* C1: if after the first run |mean(massbal trace) - observed| <= 0.1, the
\* boundary value included, no second run_MCMC call is made for the glacier and
\* the number of sampler runs stays 1.
C1_NoRetryWithinTolerance ==
    FirstRunWithinTolerance => (runs = 1 /\ pc # "sample2" /\ shifted = None)

\* a glacier persisted after one run whose first mean sits exactly on the tolerance
C1_Witness ==
    /\ pc = "done"
    /\ runs = 1
    /\ mb_mean1 # None
    /\ RAbs(Delta1) = Tolerance

\* C2: run_MCMC is called once or twice per glacier and never more; the second
\* call happens only when the first mean is outside the tolerance, the tolerance
\* test is made after the first run only, and after the second run main goes on
\* to ensemble sampling whatever the second mean is.
C2_AtMostOneRetry ==
    /\ runs \in 0..2
    /\ pc \in {"sample1", "adjust"} => runs = 1
    /\ pc = "sample2" => runs = 2
    /\ pc \in {"stratify", "process", "done", "raised"} => runs \in 1..2
    /\ runs = 2 => (mb_mean1 # None /\ RLt(Tolerance, RAbs(Delta1)))

\* a glacier persisted after two runs although the second mean is still outside
C2_Witness ==
    /\ pc = "done"
    /\ runs = 2
    /\ NeedsAdjust(massbal)

\* C3: in a retry with Delta > 0 the priors of the second run have precipitation-
\* factor upper bound 0 and temperature-bias lower bound 0; with Delta < 0 they
\* have precipitation-factor lower bound 0 and temperature-bias upper bound 0;
\* the second run samples inside these bounds.
C3_RetryBounds ==
    runs = 2 =>
        /\ RLt(RInt(0), Delta1) =>
              /\ PriorUpper(prior.precfactor) = RInt(0)
              /\ PriorLower(prior.tempchange) = RInt(0)
              /\ \A k \in DOMAIN model.precfactor : RLe(model.precfactor[k], RInt(0))
              /\ \A k \in DOMAIN model.tempchange : RLe(RInt(0), model.tempchange[k])
        /\ RLt(Delta1, RInt(0)) =>
              /\ PriorLower(prior.precfactor) = RInt(0)
              /\ PriorUpper(prior.tempchange) = RInt(0)
              /\ \A k \in DOMAIN model.precfactor : RLe(RInt(0), model.precfactor[k])
              /\ \A k \in DOMAIN model.tempchange : RLe(model.tempchange[k], RInt(0))

\* a completed second run of a glacier whose first mean was too positive
C3_Witness ==
    /\ pc = "sample2"
    /\ cur_iter = iterations
    /\ Len(model.precfactor) > 0
    /\ RLt(RInt(0), Delta1)

\* C4: in a retry the priors of the second run for precipitation factor and
\* temperature bias have as mean the means of the first run's traces (while the
\* second run samples, main's arrays still hold the first run's traces).
C4_RetryPriorsRecentred ==
    pc = "sample2" =>
        /\ PriorMean(prior.precfactor) = Mean(precfactor)
        /\ PriorMean(prior.tempchange) = Mean(tempchange)

\* the kinds of the three priors of the current run
PriorKinds ==
    {prior.precfactor.kind, prior.tempchange.kind, prior.ddfsnow.kind}

\* C5: the first run uses the primary kind (truncated normal), a retry uses the
\* secondary kind (uniform), and the kind is the primary one as long as no retry
\* was made.
C5_DistributionKinds ==
    /\ runs = 1 => (distribution_type = mcmc_distribution_type
                    /\ PriorKinds = {mcmc_distribution_type})
    /\ runs = 2 => (distribution_type = mcmc_distribution_type_2
                    /\ PriorKinds = {mcmc_distribution_type_2})

\* a glacier persisted after a retry
C5_Witness ==
    /\ pc = "done"
    /\ runs = 2
    /\ PriorKinds = {"uniform"}

\* C6: the arrays handed to es.stratified_sample are the four traces of the
\* model of the last run_MCMC call (the first run without a retry, the second
\* after one), never a mix, and the ensemble is sampled from exactly these.
C6_FinalTraceSampled ==
    /\ pc \in {"stratify", "process"} =>
          /\ massbal = model.massbal
          /\ precfactor = model.precfactor
          /\ tempchange = model.tempchange
          /\ ddfsnow = model.ddfsnow
          /\ Len(massbal) > 0
    /\ pc = "process" =>
          /\ sampling = stratified_sample(model.tempchange, model.precfactor,
                                          model.ddfsnow, model.massbal, input.ensemble_no)

\* the ensemble of a retried glacier, sampled from a second run whose
\* degree-day factors are not all equal
C6_Witness ==
    /\ pc = "process"
    /\ runs = 2
    /\ ddfsnow[1] # ddfsnow[2]

\* the columns of a persisted ensemble row
Columns ==
    {"tempchange", "precfactor", "ddfsnow", "massbal",
     "lrgcm", "lrglac", "precgrad", "ddfice", "tempsnow"}

Transformed(x) ==
    IF x[1] >= 0 THEN <<x[1] + x[2], x[2]>> ELSE <<x[2], x[2] - x[1]>>

\* C8: the precipitation-factor transformation, of prec_transformation and of
\* massbal, maps x to x + 1 when x >= 0 and to 1 / (1 - x) when x < 0, and its
\* result is > 0.
C8_TransformationValues ==
    /\ pc = "prec_done" =>
          /\ DOMAIN precfactor_out = DOMAIN precfactor_raw
          /\ \A k \in DOMAIN precfactor_raw :
                /\ RSub(precfactor_out[k], Transformed(precfactor_raw[k])) = RInt(0)
                /\ RLt(RInt(0), precfactor_out[k])
    /\ pc = "massbal_done" =>
          /\ RSub(mp_copy2, Transformed(precfactor_raw[1])) = RInt(0)
          /\ RLt(RInt(0), mp_copy2)

\* an array with a negative and a non-negative value was transformed
C8_Witness ==
    /\ pc = "prec_done"
    /\ \E j, k \in DOMAIN precfactor_raw :
          /\ RLt(precfactor_raw[j], RInt(0))
          /\ RLe(RInt(0), precfactor_raw[k])
          /\ precfactor_out[j] = Rat(1, 1 - precfactor_raw[j][1])

\* C9: the transformation is strictly increasing over all raw values, also
\* across 0; it is 1 at 0; a negative x maps strictly below 1, within |x| of 1
\* (so the values approach 1 as x approaches 0 from below).
C9_TransformationMonotone ==
    pc = "prec_done" =>
        /\ \A j, k \in DOMAIN precfactor_raw :
              RLt(precfactor_raw[j], precfactor_raw[k])
                  => RLt(precfactor_out[j], precfactor_out[k])
        /\ \A k \in DOMAIN precfactor_raw :
              /\ precfactor_raw[k] = RInt(0) => precfactor_out[k] = RInt(1)
              /\ RLt(precfactor_raw[k], RInt(0)) =>
                    /\ RLt(precfactor_out[k], RInt(1))
                    /\ RLt(RSub(RInt(1), precfactor_out[k]), RAbs(precfactor_raw[k]))

\* a transformed array holding a negative value next to 0
C9_Witness ==
    /\ pc = "prec_done"
    /\ \E j, k \in DOMAIN precfactor_raw :
          /\ RLt(precfactor_raw[j], RInt(0))
          /\ precfactor_raw[k] = RInt(0)
          /\ RLt(precfactor_out[j], precfactor_out[k])

\* the lengths of the four traces of the model
TraceLens ==
    {Len(model.massbal), Len(model.precfactor), Len(model.tempchange), Len(model.ddfsnow)}

-----------------------------------------------------------------------------
(* Ensemble stratifier.                                                    *)

\* the positions in the sorted trace that the rows of sampling were taken from
SortedIndices ==
    [r \in DOMAIN sampling |-> sampling[r].sorted_index]

\* C11: for a trace of N >= K samples es.stratified_sample returns exactly K rows,
\* taken from pairwise distinct entries of the trace, and their mass balance
\* does not decrease from one row to the next.
C11_EnsembleSizeAndCoverage ==
    (pc = "process") =>
        /\ Len(massbal) >= input.ensemble_no
        /\ Len(sampling) = input.ensemble_no
        /\ \A r \in DOMAIN sampling : SortedIndices[r] \in 0..(Len(massbal) - 1)
        /\ \A r, q \in DOMAIN sampling : r /= q => SortedIndices[r] /= SortedIndices[q]
        /\ \A r, q \in DOMAIN sampling : r < q => RLe(sampling[r].massbal, sampling[q].massbal)
        /\ \E f \in [DOMAIN sampling -> DOMAIN massbal] :
              /\ \A r, q \in DOMAIN sampling : r /= q => f[r] /= f[q]
              /\ \A r \in DOMAIN sampling : sampling[r].massbal = massbal[f[r]]

\* an ensemble of two or more members drawn from a longer trace whose mass
\* balances are not all equal
C11_Witness ==
    /\ pc = "process"
    /\ input.ensemble_no >= 2
    /\ Len(massbal) > input.ensemble_no
    /\ \E i, j \in DOMAIN massbal : massbal[i] /= massbal[j]
    /\ sampling[1].massbal /= sampling[Len(sampling)].massbal

\* C12: with fewer samples than ensemble members (N < K) es.stratified_sample
\* fails with InsufficientSamplesError, and no record is written for the glacier.
C12_InsufficientSamples ==
    (Len(massbal) < input.ensemble_no /\ pc /= "stratify") =>
        /\ pc = "raised"
        /\ exc = InsufficientSamplesError
        /\ sampling = <<>>
        /\ Format5f(main_glac_rgi[1]) \notin DOMAIN files

\* a non-empty trace shorter than the ensemble, the stratifier having been called
C12_Witness ==
    /\ pc = "raised"
    /\ exc = InsufficientSamplesError
    /\ Len(massbal) >= 1
    /\ Len(massbal) < input.ensemble_no
    /\ files = <<>>

\* the record written for the glacier of a one-glacier chunk
PersistedRows ==
    files[Format5f(main_glac_rgi[1])].values

\* C13: every ensemble member holds the transformed value of the raw
\* precipitation factor that the trace stores at the selected index, and the
\* temperature change, snow degree-day factor and mass balance of the trace at
\* that same index; the persisted record holds the same four values.
C13_MemberValues ==
    /\ (pc \in {"process", "done"}) =>
          /\ precfactor = model.precfactor
          /\ \A r \in DOMAIN sampling :
                LET k == SortedAt(massbal, sampling[r].sorted_index + 1)
                IN  /\ sampling[r].precfactor = Transformed(precfactor[k])
                    /\ sampling[r].tempchange = tempchange[k]
                    /\ sampling[r].ddfsnow = ddfsnow[k]
                    /\ sampling[r].massbal = massbal[k]
    /\ (pc = "done") =>
          /\ Len(sampling) = input.ensemble_no
          /\ \A r \in DOMAIN sampling :
                /\ PersistedRows[r - 1].precfactor = sampling[r].precfactor
                /\ PersistedRows[r - 1].tempchange = sampling[r].tempchange
                /\ PersistedRows[r - 1].ddfsnow = sampling[r].ddfsnow
                /\ PersistedRows[r - 1].massbal = sampling[r].massbal

\* a persisted ensemble with a member from a negative raw precipitation factor
\* (-2, persisted as 1/3) and one from a positive raw value (1, persisted as 2)
C13_Witness ==
    /\ pc = "done"
    /\ \E k \in DOMAIN precfactor : precfactor[k] = RInt(-2)
    /\ \E r \in DOMAIN PersistedRows : PersistedRows[r].precfactor = Rat(1, 3)
    /\ \E r \in DOMAIN PersistedRows : PersistedRows[r].precfactor = RInt(2)

\* the calibrated columns of a dataframe row
Calibrated(row) ==
    <<row.tempchange, row.precfactor, row.ddfsnow, row.massbal>>

\* C14: in the persisted ensemble lrgcm, lrglac, precgrad, ddfice and tempsnow
\* are the values of the static configuration in every member, whatever the
\* trace; process_df changes no calibrated value and keeps the number of rows.
C14_AuxiliaryPassThrough ==
    (pc = "done") =>
        /\ Cardinality(DOMAIN PersistedRows) = Len(sampling)
        /\ \A r \in DOMAIN PersistedRows :
              /\ PersistedRows[r].lrgcm = static_lrgcm
              /\ PersistedRows[r].lrglac = static_lrglac
              /\ PersistedRows[r].precgrad = static_precgrad
              /\ PersistedRows[r].ddfice = static_ddfice
              /\ PersistedRows[r].tempsnow = static_tempsnow
        /\ {Calibrated(PersistedRows[r]) : r \in DOMAIN PersistedRows}
               = {Calibrated(sampling[r]) : r \in DOMAIN sampling}

\* a persisted ensemble whose members differ in the sampled temperature change
C14_Witness ==
    /\ pc = "done"
    /\ input.ensemble_no >= 2
    /\ \E r, q \in DOMAIN PersistedRows :
          PersistedRows[r].tempchange /= PersistedRows[q].tempchange

\* C15: the persisted ensemble is indexed by the run index 0..K-1, run i
\* being row i + 1 of the dataframe the stratifier returned.
C15_RunIndex ==
    (pc = "done") =>
        /\ DOMAIN PersistedRows = 0..(input.ensemble_no - 1)
        /\ \A i \in 0..(input.ensemble_no - 1) :
              Calibrated(PersistedRows[i]) = Calibrated(sampling[i + 1])

\* a persisted ensemble of three members whose first and last run differ
C15_Witness ==
    /\ pc = "done"
    /\ input.ensemble_no = 3
    /\ DOMAIN PersistedRows = {0, 1, 2}
    /\ Calibrated(PersistedRows[0]) /= Calibrated(PersistedRows[2])

-----------------------------------------------------------------------------
(* __main__.                                                               *)

\* the 0-based row numbers [chunk, chunk + chunk_size) of packed element n
\* that exist in the table of all glaciers
ChunkRows(n) ==
    LET u == Unpacked(list_packed_vars[n])
    IN  {i \in 0..(Len(main_glac_rgi_all) - 1) : u.chunk <= i /\ i < u.chunk + u.chunk_size}

\* C19: the chunks [chunk, chunk + chunk_size) handed to the workers are
\* contiguous, non-empty and pairwise disjoint, their union is the whole table
\* of N glaciers, and each worker selects exactly the rows of its chunk, in
\* run_calibration and in run_simulation.
C19_ChunksPartition ==
    (driver_pc = "run") =>
        /\ chunk_size >= 1
        /\ Len(list_packed_vars) >= 1
        /\ Unpacked(list_packed_vars[1]).chunk = 0
        /\ \A n \in DOMAIN list_packed_vars :
              /\ Unpacked(list_packed_vars[n]).count = n
              /\ Unpacked(list_packed_vars[n]).chunk_size = chunk_size
              /\ Unpacked(list_packed_vars[n]).main_glac_rgi_all = main_glac_rgi_all
              /\ ChunkRows(n) /= {}
              /\ n > 1 => Unpacked(list_packed_vars[n]).chunk
                              = Unpacked(list_packed_vars[n - 1]).chunk + chunk_size
        /\ \A n, m \in DOMAIN list_packed_vars : n /= m => ChunkRows(n) \cap ChunkRows(m) = {}
        /\ UNION {ChunkRows(n) : n \in DOMAIN list_packed_vars}
               = 0..(Len(main_glac_rgi_all) - 1)
        /\ \A n \in DOMAIN tasks :
              tasks[n].status = "running" =>
                  /\ Len(tasks[n].main_glac_rgi_raw) = Cardinality(ChunkRows(n))
                  /\ \A k \in DOMAIN tasks[n].main_glac_rgi_raw :
                        tasks[n].main_glac_rgi_raw[k]
                            = main_glac_rgi_all[Unpacked(list_packed_vars[n]).chunk + k]

\* run_calibration with two chunks, the last one shorter than chunk_size, both
\* selected by their workers
C19_Witness ==
    /\ driver_pc = "run"
    /\ script = "calibration"
    /\ Len(list_packed_vars) = 2
    /\ Cardinality(ChunkRows(2)) < chunk_size
    /\ \A n \in DOMAIN tasks : tasks[n].status = "running"

\* run_simulation with more than one chunk, the last one shorter than chunk_size
C19_WitnessSimulation ==
    /\ driver_pc = "run"
    /\ script = "simulation"
    /\ Len(list_packed_vars) >= 2
    /\ Cardinality(ChunkRows(Len(list_packed_vars))) < chunk_size
    /\ \A n \in DOMAIN tasks : tasks[n].status = "running"

\* the glaciers whose pass of the glacier loop raised
FailedGlaciers ==
    {tasks[n].main_glac_rgi[tasks[n].glac] : n \in {m \in DOMAIN tasks : tasks[m].status = "raised"}}

\* the lines printed about a glacier
LinesAbout(g) ==
    {l \in stdout : l.glacier = Format5f(g)}

\* C16: when the calibration of a glacier fails, every other glacier of the
\* batch, the later ones of the same chunk included, has its record persisted,
\* and the failing glacier has no record and a printed line that names it and
\* the kind of the failure.
C16_FailureIsolation ==
    (driver_pc = "aborted") =>
        /\ \A g \in cal_glacno \ FailedGlaciers : Format5f(g) \in DOMAIN files
        /\ \A n \in DOMAIN tasks :
              tasks[n].status = "raised" =>
                  /\ Format5f(tasks[n].main_glac_rgi[tasks[n].glac]) \notin DOMAIN files
                  /\ \E l \in LinesAbout(tasks[n].main_glac_rgi[tasks[n].glac]) :
                        l.line = tasks[n].exc

\* C17: when the first sampler run of a glacier fails with
\* NumericalInstabilityError a second run is made, so the failure that ends the
\* glacier is the one of the second run, and nothing is persisted for it.
C17_RetryAfterInstability ==
    (pc = "raised" /\ exc = NumericalInstabilityError) =>
        /\ runs = 2
        /\ glacier_str \notin DOMAIN files

\* C18: every glacier handed to a worker ends with a persisted record or with a
\* printed line that names it.
C18_NoSilentDrop ==
    (driver_pc \in {"done", "aborted"}) =>
        \A n \in DOMAIN tasks :
            \A k \in DOMAIN tasks[n].main_glac_rgi_raw :
                \/ Format5f(tasks[n].main_glac_rgi_raw[k]) \in DOMAIN files
                \/ LinesAbout(tasks[n].main_glac_rgi_raw[k]) /= {}

\* the glaciers whose record a worker wrote
PersistedGlaciers ==
    UNION {{tasks[n].main_glac_rgi[k] : k \in 1..(tasks[n].glac - 1)} : n \in DOMAIN tasks}

\* the RGIId_float that a key of five decimals stands for
KeyValue(fn) ==
    Rat(fn[1] * 100000 + fn[3], 100000)

\* C20: the merge yields one aggregate with exactly one entry for every
\* per-glacier record the workers persisted, keyed by the glacier's identifier
\* and holding that record; with unique identifiers nothing is overwritten or lost.
C20_MergeOneEntryPerRecord ==
    (driver_pc = "done") =>
        /\ Cardinality(DOMAIN da_dict) = Cardinality(PersistedGlaciers)
        /\ {KeyValue(fn) : fn \in DOMAIN da_dict} = PersistedGlaciers
        /\ DOMAIN da_dict = DOMAIN files
        /\ \A fn \in DOMAIN da_dict :
              /\ files[fn].name = fn
              /\ da_dict[fn] = files[fn].values
        /\ DOMAIN mcmc_output = {"variables"}
        /\ mcmc_output.variables = da_dict

\* a merge of the records of three or more glaciers written by two workers, a
\* glacier without calibration data having been left out
C20_Witness ==
    /\ driver_pc = "done"
    /\ Len(tasks) = 2
    /\ Cardinality(DOMAIN da_dict) >= 3
    /\ Cardinality(DOMAIN da_dict) < Len(main_glac_rgi_all)
    /\ \E fn, gn \in DOMAIN da_dict : da_dict[fn] /= da_dict[gn]

-----------------------------------------------------------------------------
(* The priors of every sampler run.                                        *)

\* a bounded normal has its mean between its bounds, a uniform a lower bound
\* below its upper bound
ValidBounds(kind, mu, boundlow, boundhigh) ==
    IF kind = mcmc_distribution_type
    THEN RLe(boundlow, mu) /\ RLe(mu, boundhigh)
    ELSE RLt(boundlow, boundhigh)

\* the three priors described by the keyword arguments of a run_MCMC call
ValidArgs(kind, args) ==
    /\ ValidBounds(kind, args.precfactor_mu, args.precfactor_boundlow,
                   args.precfactor_boundhigh)
    /\ ValidBounds(kind, args.tempchange_mu, args.tempchange_boundlow,
                   args.tempchange_boundhigh)
    /\ ValidBounds(kind, args.ddfsnow_mu, args.ddfsnow_boundlow, args.ddfsnow_boundhigh)

\* C23: every set of priors given to a sampler run, the first run's and the
\* retry's, has lower <= mean <= upper when it is a bounded normal and
\* lower < upper when it is uniform: the arguments main is about to pass to
\* run_MCMC satisfy it, and so do the priors run_MCMC built from them.
C23_PriorsWellFormed ==
    /\ pc = "mcmc" => ValidArgs(mcmc_distribution_type, DefaultArgs)
    /\ (pc = "adjust" /\ NeedsAdjust(massbal)) =>
          ValidArgs(mcmc_distribution_type_2,
                    RetryArgs(ShiftedValues(precfactor, tempchange, massbal)))
    /\ runs >= 1 =>
          \A v \in {"precfactor", "tempchange", "ddfsnow"} :
              ValidBounds(prior[v].kind, PriorMean(prior[v]), PriorLower(prior[v]),
                          PriorUpper(prior[v]))
    /\ runs = 2 =>
          /\ ValidArgs(distribution_type, RetryArgs(shifted))
          /\ RInt(0) \in {shifted.precfactor_boundlow, shifted.precfactor_boundhigh}
          /\ RInt(0) \in {shifted.tempchange_boundlow, shifted.tempchange_boundhigh}
          /\ pc = "sample2" => /\ shifted.precfactor_mu = Mean(precfactor)
                               /\ shifted.tempchange_mu = Mean(tempchange)

\* the second run of a retry is sampling with the shifted priors
C23_Witness ==
    /\ pc = "sample2"
    /\ runs = 2
    /\ cur_iter > 0
    /\ prior.precfactor.kind = mcmc_distribution_type_2

-----------------------------------------------------------------------------
(* A retry whose result is still outside the tolerance.                    *)

\* the mean of the ensemble's mass balances is more than the tolerance away
\* from the observation
EnsembleOutside ==
    RLt(Tolerance, RAbs(RSub(observed_massbal,
                             Mean([r \in 1..Len(sampling) |-> sampling[r].massbal]))))

\* the line main prints about the ensemble of the first glacier being outside
\* the bounds
StillOutsideLine ==
    [glacier |-> Format5f(main_glac_rgi[1]), line |-> "still outside bounds!"]

\* C26: after a retry the ensemble is built and persisted whatever the second
\* run's mean is: main never goes back to the tolerance test or to a third run,
\* the ensemble has input.ensemble_no members, the glacier's record is written
\* from it, and an ensemble mean still outside the tolerance shows only as the
\* 'still outside bounds!' line, printed exactly in that case.
C26_RetryPersistedAnyway ==
    runs = 2 =>
        /\ pc \in {"sample2", "stratify", "process", "done", "raised"}
        /\ pc \in {"process", "done"} =>
              /\ Len(sampling) = input.ensemble_no
              /\ (StillOutsideLine \in stdout) <=> EnsembleOutside
        /\ pc = "done" =>
              /\ exc = None
              /\ Format5f(main_glac_rgi[1]) \in DOMAIN files
              /\ DOMAIN files[Format5f(main_glac_rgi[1])].values = 0..(Len(sampling) - 1)
              /\ \A r \in 1..Len(sampling) :
                    files[Format5f(main_glac_rgi[1])].values[r - 1].massbal =
                        sampling[r].massbal

\* a glacier persisted after a retry with its ensemble mean still outside
C26_Witness ==
    /\ pc = "done"
    /\ runs = 2
    /\ EnsembleOutside
    /\ StillOutsideLine \in stdout
    /\ DOMAIN files # {}

-----------------------------------------------------------------------------
(* The files of a previous run, the workers and the merge.                 *)

\* the names of the files the workers of this run have written so far
WrittenNames ==
    {Format5f(g) : g \in PersistedGlaciers}

\* C27: the driver removes the per-glacier files of a previous run before any
\* worker starts, so that from then on the directory holds only files written
\* in this run; the merge starts only after every worker has returned; and the
\* aggregate has exactly the glaciers persisted in this run, each with the
\* complete record its worker wrote.
C27_CleanBeforeMergeAfter ==
    /\ (\E n \in DOMAIN tasks : tasks[n].status # "waiting") =>
          /\ driver_pc \in {"run", "aborted", "merge", "done"}
          /\ DOMAIN files = WrittenNames
    /\ (driver_pc = "run" /\ \A n \in DOMAIN tasks : tasks[n].status = "waiting") =>
          DOMAIN files = {}
    /\ driver_pc \in {"merge", "done"} =>
          \A n \in DOMAIN tasks : /\ tasks[n].status = "returned"
                                  /\ tasks[n].glac = Len(tasks[n].main_glac_rgi) + 1
    /\ driver_pc = "done" =>
          /\ DOMAIN da_dict = WrittenNames
          /\ WrittenNames = {Format5f(g) : g \in cal_glacno}
          /\ \A fn \in DOMAIN da_dict :
                \E ens \in BatchEnsembles : da_dict[fn] = process_df(ens)

\* a merge made after a run that found the file of a glacier which has no
\* calibration data this time: the file was removed and the glacier is not in
\* the aggregate, which holds the glaciers of two workers
C27_Witness ==
    /\ driver_pc = "done"
    /\ filelist = {Format5f(RGIId_float(1))}
    /\ RGIId_float(1) \notin cal_glacno
    /\ Format5f(RGIId_float(1)) \notin DOMAIN da_dict
    /\ Cardinality(DOMAIN da_dict) >= 2
    /\ Len(tasks) >= 2

-----------------------------------------------------------------------------
(* The files the workers write.                                            *)

\* the file of the glacier in row i (0-based) of the region's table
FileOfRow(i) ==
    IF script = "calibration"
    THEN Format5f(main_glac_rgi_all[i + 1])
    ELSE <<"ERA-Interim", "--">> \o Format5f(main_glac_rgi_all[i + 1]) \o <<".nc">>

\* C21: whatever the interleaving of the workers, no file is written by two
\* different workers: every file in the output directory was written by
\* exactly one call of main, and that call's chunk contains the file's glacier
\* (per-glacier records of the calibration and per-glacier output files of the
\* simulation alike).
C21_OneWriterPerFile ==
    /\ \A w \in writes :
          /\ w.file \in DOMAIN files
          /\ \E i \in ChunkRows(w.worker) : w.file = FileOfRow(i)
    /\ \A fn \in DOMAIN files :
          Cardinality({w.worker : w \in {x \in writes : x.file = fn}}) = 1
    /\ \A v, w \in writes : v.file = w.file => v.worker = w.worker

\* three workers of the pool of run_simulation, all still running, each
\* having written a file
C21_Witness ==
    /\ script = "simulation"
    /\ UsesPool
    /\ Len(tasks) = 3
    /\ \A n \in DOMAIN tasks : /\ tasks[n].status = "running"
                               /\ \E w \in writes : w.worker = n
    /\ Cardinality(DOMAIN files) >= 4

\* two workers of the pool of run_calibration, both still running, each
\* having written a record
C21_WitnessCalibration ==
    /\ script = "calibration"
    /\ UsesPool
    /\ Len(tasks) = 2
    /\ \A n \in DOMAIN tasks : /\ tasks[n].status = "running"
                               /\ \E w \in writes : w.worker = n

-----------------------------------------------------------------------------
(* Priors that cannot be built.                                            *)

ConfigurationError == "ConfigurationError"

\* C22: a run_MCMC call whose priors have a standard deviation <= 0 (bounded
\* normal) or a lower bound >= the upper bound fails with ConfigurationError
\* before any sampling iteration and without a trace.
C22_InvalidPriorsRejected ==
    pc = "raised" =>
        /\ exc = ConfigurationError
        /\ cur_iter = 0
        /\ model = EmptyTrace

-----------------------------------------------------------------------------
(* The parameter list of a forward-model evaluation.                       *)

\* C28: every evaluation of the forward model works on a copy of main's
\* modelparameters: main's list stays as it was set for the glacier, the copy
\* differs from it only in the entries of precfactor, ddfsnow and tempchange,
\* which hold the values of this evaluation, the precipitation factor
\* transformed once from its raw value (x + 1 for x >= 0, 1 / (1 - x) for
\* x < 0), whatever the evaluations made before.
C28_FreshCopyPerEvaluation ==
    /\ pc # "select" => modelparameters = Baseline
    /\ runs >= 1 =>
          /\ Len(modelparameters_copy) = Len(modelparameters)
          /\ \A i \in {1, 2, 4, 6, 7} : modelparameters_copy[i] = modelparameters[i]
          /\ modelparameters_copy[3] = Transformed(cur.precfactor)
          /\ modelparameters_copy[5] = cur.ddfsnow
          /\ modelparameters_copy[8] = cur.tempchange

\* an evaluation with a negative raw precipitation factor in the second run
\* of a glacier, after evaluations with a positive one in the first run
C28_Witness ==
    /\ pc = "sample2"
    /\ cur_iter >= 2
    /\ RLt(cur.precfactor, RInt(0))
    /\ \E k \in DOMAIN precfactor : RLt(RInt(0), precfactor[k])
    /\ modelparameters_copy[3] = Rat(1, 3)

-----------------------------------------------------------------------------
(* The mass balance compared with the observation.                         *)

\* the sum of the entries of series at the 0-based positions a <= k < b
RECURSIVE WindowTotal(_, _, _)
WindowTotal(series, a, b) ==
    IF series = <<>> THEN RInt(0)
    ELSE LET k == Len(series) - 1
             front == WindowTotal(SubSeq(series, 1, k), a, b)
         IN  IF a <= k /\ k < b THEN RAdd(front, series[k + 1]) ELSE front

\* C24: the mass balance massbal returns is the sum of the glacier-wide mass
\* balances of the time steps t1_idx <= k < t2_idx divided by t2 - t1, and the
\* observed mass balance and its error are the observed totals divided by the
\* same t2 - t1.
C24_WindowMean ==
    pc = "massbal_done" =>
        LET years == RInt(glacier_cal_data.t2 - glacier_cal_data.t1)
        IN  /\ RMul(cur.massbal, years) =
                  WindowTotal(glac_wide_massbaltotal, glacier_cal_data.t1_idx,
                              glacier_cal_data.t2_idx)
            /\ RMul(observed_massbal, years) = glacier_cal_data.mb_mwe
            /\ RMul(observed_error, years) = glacier_cal_data.mb_mwe_err

\* a window of two steps inside a longer series of unequal values, over a
\* number of years that is not the number of steps
C24_Witness ==
    /\ pc = "massbal_done"
    /\ glacier_cal_data.t1_idx = 1
    /\ glacier_cal_data.t2_idx = 3
    /\ glacier_cal_data.t2 - glacier_cal_data.t1 = 15
    /\ glac_wide_massbaltotal = <<Rat(1, 4), Rat(-1, 2), Rat(1, 4), Rat(1, 4)>>
    /\ cur.massbal = Rat(-1, 60)

-----------------------------------------------------------------------------
(* Two executions of the same calibration.                                 *)

\* C25: the sampler's random stream is seeded from the glacier, so that a
\* second execution with the same glacier and arguments returns the same
\* traces as the first one.
C25_SameTraceWhenRepeated ==
    (pc = "returned" /\ executions # <<>>) => model = executions[1]

-----------------------------------------------------------------------------
(* The parameter sets of the simulation.                                   *)

\* C29: with imported model parameters, the glaciers of a chunk leave
\* input.modelparams_colnames as configured, and for every glacier the
\* selected columns are the configured names followed by 'massbal' once.
C29_ColnamesUnchanged ==
    /\ input.modelparams_colnames = modelparams_colnames
    /\ pc \in {"sim_select", "sim_loop"} =>
          cn_subset = modelparams_colnames \o <<"massbal">>

\* C30: with option_calibration 2, more than one parameter set N,
\* sim_burn >= 0, sim_iters >= 1 and N - sim_burn >= sim_iters, whatever the
\* random start: the indices mp_idx_all[0 .. sim_iters - 1] exist, are in
\* [sim_burn, N), follow each other at the distance
\* mp_spacing = floor((N - sim_burn) / sim_iters), and so are all different;
\* the loop reads exactly these.
C30_ParameterSetIndices ==
    (/\ pc = "sim_loop"
     /\ input.option_calibration = 2
     /\ modelparams_all.rows > 1
     /\ modelparams_all.rows - input.sim_burn >= input.sim_iters) =>
        /\ sim_iters = input.sim_iters
        /\ mp_spacing = (modelparams_all.rows - input.sim_burn) \div input.sim_iters
        /\ mp_spacing >= 1
        /\ Len(mp_idx_all) >= sim_iters
        /\ \A k \in 1..sim_iters :
              /\ input.sim_burn <= mp_idx_all[k]
              /\ mp_idx_all[k] < modelparams_all.rows
              /\ k > 1 => mp_idx_all[k] = mp_idx_all[k - 1] + mp_spacing
        /\ \A j, k \in 1..sim_iters : j # k => mp_idx_all[j] # mp_idx_all[k]
        /\ (sim_iters > 1 /\ n_iter >= 1) => mp_idx = mp_idx_all[n_iter]

\* two parameter sets taken at distance 2 from six after a burn-in of 1, the
\* start being the second of the two possible ones, both read by the loop
C30_Witness ==
    /\ pc = "sim_loop"
    /\ input.option_calibration = 2
    /\ modelparams_all.rows = 6
    /\ input.sim_burn = 1
    /\ sim_iters = 2
    /\ n_iter = 2
    /\ mp_spacing = 2
    /\ mp_idx_all = <<2, 4>>
    /\ mp_idx = 4

====
